---- MODULE Spec2Model ----
(***************************************************************************)
(* A model of RDFFresnel (src/RDFFresnel/__init__.py): the match engine    *)
(* (Context.matches, MatchQuality, Context.lens, Context.fmt), language    *)
(* negotiation, and the box tree with its select, portray and transform    *)
(* phases.                                                                 *)
(*                                                                         *)
(* The specifications share the variables:                                 *)
(*   SpecQuality  MatchQuality objects built by report* calls and compared *)
(*   SpecLens     Context.matches / Context.lens / Context.fmt on a rule   *)
(*                repository                                               *)
(*   SpecMatch    Context.matches on one rule node                         *)
(*   Spec         a rendering: ContainerBox.append, select, portray and    *)
(*                transform, on a family of graphs and lenses              *)
(*   SpecContainer  the same calls, with more roots and repeated select,   *)
(*                on a small family of graphs, lenses and formats          *)
(***************************************************************************)
EXTENDS Integers, Sequences, FiniteSets, TLC

VARIABLES
    instanceGraph,  \* Context.instanceGraph: the data graph
    fresnelGraph,   \* Context.fresnelGraph: the rule graph (lens nodes)
    qa, qb,         \* two MatchQuality objects
    cmp,            \* outcome of the last comparison of qa and qb
    cx,             \* the Context a match-engine call is made on
    ret,            \* the last match-engine call and what it returned
    ctxs,           \* the Context objects of a rendering, by identity
    boxes,          \* the Box objects of a rendering, by identity
    status,         \* how far the rendering has come
    plan,           \* the append and select calls the caller may still make
    result          \* what ContainerBox.transform returned

vars == <<instanceGraph, fresnelGraph, qa, qb, cmp, cx, ret,
          ctxs, boxes, status, plan, result>>

\* The variables of the box tree
tree == <<ctxs, boxes, status, plan, result>>

-----------------------------------------------------------------------------
(* Values of the Python program *)

None == "None"

\* A slot of a __slots__ class that was never assigned
Unset == "unset"

-----------------------------------------------------------------------------
(* Bounds of the model *)

\* Largest value passed to reportQuerySpecifity
MaxSpecifity == 1

\* Most selectors in the fresnel:instanceLensDomain / instanceFormatDomain
\* of the rule Context.matches is called on (SpecMatch)
MaxSelectors == 2

\* Most rule nodes in the rule graph Context.lens and Context.fmt choose
\* from (SpecLens)
MaxRules == 2

-----------------------------------------------------------------------------
(* The class hierarchy of the instance graph *)

Classes == {"A", "B", "C"}

\* rdfs:subClassOf triples <<sub, super>> a graph may hold: any subset is a
\* hierarchy (chains C < B < A, the cycles A < B < A and C < B < A < C, a
\* class with two superclasses, unrelated classes)
SubClassEdges == {<<"B", "A">>, <<"C", "B">>, <<"A", "B">>, <<"A", "C">>}

\* Graph.subjects(rdfs.subClassOf, c)
subjects(sub, c) == {e[1] : e \in {x \in sub : x[2] = c}}

\* Graph.objects(c, rdfs.subClassOf)
objects(sub, c) == {e[2] : e \in {x \in sub : x[1] = c}}

\* Graph.transitive_subjects(rdfs.subClassOf, c, remember=None): c itself,
\* then every node reached backwards, each visited once (remember).
RECURSIVE walk_subjects(_, _, _)
walk_subjects(sub, todo, remember) ==
    IF todo = {} THEN remember
    ELSE LET c == CHOOSE x \in todo : TRUE
         IN  IF c \in remember
             THEN walk_subjects(sub, todo \ {c}, remember)
             ELSE walk_subjects(sub, (todo \ {c}) \cup subjects(sub, c),
                                remember \cup {c})

transitive_subjects(sub, c) == walk_subjects(sub, {c}, {})

\* Graph.transitive_objects(c, rdfs.subClassOf, remember=None)
RECURSIVE walk_objects(_, _, _)
walk_objects(sub, todo, remember) ==
    IF todo = {} THEN remember
    ELSE LET c == CHOOSE x \in todo : TRUE
         IN  IF c \in remember
             THEN walk_objects(sub, todo \ {c}, remember)
             ELSE walk_objects(sub, (todo \ {c}) \cup objects(sub, c),
                               remember \cup {c})

transitive_objects(sub, c) == walk_objects(sub, {c}, {})

-----------------------------------------------------------------------------
(* MatchQuality *)

\* MatchQuality.__init__ : _classNode is a slot left unassigned
MatchQuality ==
    [classMatch |-> TRUE, classNode |-> Unset, simple |-> TRUE,
     relative |-> FALSE, specifity |-> 0]

reportClassMatch(q, classNode) ==
    [q EXCEPT !.classMatch = TRUE, !.classNode = classNode]

reportInstanceMatch(q) == [q EXCEPT !.classMatch = FALSE]

reportSimpleSelector(q) == [q EXCEPT !.simple = TRUE]

reportRelativeQuery(q) == [q EXCEPT !.simple = FALSE, !.relative = TRUE]

reportAbsoluteQuery(q) == [q EXCEPT !.simple = FALSE, !.relative = FALSE]

reportQuerySpecifity(q, specifity) == [q EXCEPT !.specifity = specifity]

\* Python orders bool as int: False < True
BoolInt(b) == IF b THEN 1 ELSE 0

\* A slip in the key: the "not" before q._classMatch left out
quality_class_first(q) ==
    <<BoolInt(q.classMatch), BoolInt(q.simple), BoolInt(q.relative), q.specifity>>

\* The key of the lambda in MatchQuality.__le__
quality(q) ==
    <<BoolInt(~q.classMatch), BoolInt(q.simple), BoolInt(q.relative), q.specifity>>

\* Python's <= on tuples of equal length: the first differing position decides
RECURSIVE tuple_le(_, _)
tuple_le(s, t) ==
    IF s = <<>> THEN TRUE
    ELSE IF Head(s) # Head(t) THEN Head(s) < Head(t)
    ELSE tuple_le(Tail(s), Tail(t))

\* MatchQuality.__le__ reads self._classNode and other._classNode when both
\* are class matches; an unassigned slot raises AttributeError.
le_raises(self, other) ==
    self.classMatch /\ other.classMatch
    /\ (self.classNode = Unset \/ other.classNode = Unset)

\* A slip in the class branch: self and other exchanged in the subclass test
MatchQuality_le_swapped(sub, self, other) ==
    IF self.classMatch /\ other.classMatch
    THEN self.classNode \in transitive_subjects(sub, other.classNode)
    ELSE tuple_le(quality(self), quality(other))

\* MatchQuality.__le__ (where it does not raise)
MatchQuality_le(sub, self, other) ==
    IF self.classMatch /\ other.classMatch
    THEN other.classNode \in transitive_subjects(sub, self.classNode)
    ELSE tuple_le(quality(self), quality(other))

\* MatchQuality.__lt__ : "self >= other" has no __ge__ and is answered by the
\* reflected other.__le__(self)
MatchQuality_lt(sub, self, other) ==
    MatchQuality_le(sub, self, other) /\ ~MatchQuality_le(sub, other, self)

\* MatchQuality.__eq__
MatchQuality_eq(sub, self, other) ==
    MatchQuality_le(sub, self, other) /\ MatchQuality_le(sub, other, self)

-----------------------------------------------------------------------------
(* RDF nodes.  Every node is a string; the sets below say what kind it is. *)

\* Literals used as selectors, by datatype
SparqlSelectors == {"ASK"}     \* datatype fresnel:sparqlSelector
OtherSelectors == {"FSL"}      \* any other datatype (fresnel:fslSelector)
SelectorLiterals == SparqlSelectors \cup OtherSelectors

\* isinstance(selector, Literal)
IsLiteralSelector(selector) == selector \in SelectorLiterals

\* fresnel:purpose values the code tests for
Purposes == {"labelLens", "defaultLens"}

\* A missing value in a field that otherwise holds a sequence
NoCandidates == <<None>>

\* Python truth value of a field holding None or a list
TruthyList(l) == l # NoCandidates /\ l # <<>>

-----------------------------------------------------------------------------
(* The rule graph.  fresnelGraph is the sequence of its rule nodes in the   *)
(* order the store enumerates them; a Lens or Format object is a view on a  *)
(* node, named here by the view's class and the node's id.                  *)

NodeRec(fg, node) == fg[CHOOSE i \in 1..Len(fg) : fg[i].node = node]

RECURSIVE SelectIds(_, _)
SelectIds(fg, type) ==
    IF fg = <<>> THEN <<>>
    ELSE (IF type \in Head(fg).types THEN <<Head(fg).node>> ELSE <<>>)
         \o SelectIds(Tail(fg), type)

\* FresnelCache.__init__ : self.lenses, self.fmts
FresnelCache_lenses(fg) == SelectIds(fg, "Lens")
FresnelCache_fmts(fg) == SelectIds(fg, "Format")

\* Lens.instanceSelectors / Format.instanceSelectors
instanceSelectors(fg, cls, node) == NodeRec(fg, node).instanceDomain

\* Lens.classSelectors / Format.classSelectors
classSelectors(fg, cls, node) == NodeRec(fg, node).classDomain

\* Lens.propertySelectors (always empty) / Format.propertySelectors
propertySelectors(fg, cls, node) ==
    IF cls = "Lens" THEN <<>> ELSE NodeRec(fg, node).propertyDomain

\* Lens.purposes / Format.purposes (always empty)
purposes(fg, cls, node) ==
    IF cls = "Lens" THEN NodeRec(fg, node).purpose ELSE {}

-----------------------------------------------------------------------------
(* Context *)

\* Context.__init__ default of depth
DefaultDepth == 1000

\* Context.__init__ default of langs
DefaultLangs == <<"en", "en-GB", "en-US", "de", "de-CH", "jbo">>

\* Context.__init__ without "other": the defaults, then the keyword options
\* (here opts is a record of the fields given)
Context(opts) ==
    LET default == [baseNode |-> "False", group |-> "False",
                    lensCandidates |-> NoCandidates,
                    fmtCandidates |-> NoCandidates,
                    depth |-> DefaultDepth, label |-> FALSE,
                    langs |-> DefaultLangs,
                    fallbackLens |-> None, fallbackLabelLens |-> None]
    IN  [f \in DOMAIN default |->
            IF f \in DOMAIN opts THEN opts[f] ELSE default[f]]

-----------------------------------------------------------------------------
(* Context.matches *)

InstanceMatchSimple == reportSimpleSelector(reportInstanceMatch(MatchQuality))
InstanceMatchRelative == reportRelativeQuery(reportInstanceMatch(MatchQuality))
ClassMatchSimple(c) == reportSimpleSelector(reportClassMatch(MatchQuality, c))

\* The types of targetNode with all their superclasses (lines 212-213)
TypesClosure(g, targetNode) ==
    UNION {transitive_objects(g.sub, t) : t \in g.types[targetNode]}

\* One pass of the loop over instanceSelectors (and of the identical loop
\* over propertySelectors): the qualities appended, or an exception
SelectorQualities(g, selector, targetNode) ==
    IF IsLiteralSelector(selector)
    THEN IF selector \in SparqlSelectors
         THEN [raised |-> FALSE,
               qs |-> IF <<selector, targetNode>> \in g.ask
                      THEN <<InstanceMatchRelative>> ELSE <<>>]
         ELSE [raised |-> TRUE, qs |-> <<>>]
    ELSE [raised |-> FALSE,
          qs |-> IF targetNode = selector THEN <<InstanceMatchSimple>> ELSE <<>>]

\* One pass of the loop over classSelectors
ClassQualities(g, selector, targetNode) ==
    [raised |-> FALSE,
     qs |-> IF selector \in TypesClosure(g, targetNode)
            THEN <<ClassMatchSimple(selector)>> ELSE <<>>]

\* One of the three loops; acc = [raised, qs, evaluated] so far
Appended(acc, r) ==
    [raised |-> r.raised, qs |-> acc.qs \o r.qs, evaluated |-> acc.evaluated + 1]

RECURSIVE RunSelectors(_, _, _, _, _)
RunSelectors(g, kind, selectors, targetNode, acc) ==
    IF selectors = <<>> \/ acc.raised THEN acc
    ELSE RunSelectors(g, kind, Tail(selectors), targetNode,
            Appended(acc,
                IF kind = "class"
                THEN ClassQualities(g, Head(selectors), targetNode)
                ELSE SelectorQualities(g, Head(selectors), targetNode)))

\* Python's max(list): the first element no later element is greater than
\* (item > max is answered by the reflected max.__lt__(item))
RECURSIVE PyMax(_, _, _)
PyMax(g, best, rest) ==
    IF rest = <<>> THEN best
    ELSE PyMax(g, IF MatchQuality_lt(g.sub, best, Head(rest))
                  THEN Head(rest) ELSE best, Tail(rest))

NoMatch(evaluated) ==
    [raised |-> FALSE, matched |-> FALSE, q |-> MatchQuality,
     evaluated |-> evaluated]

\* Line 244, and the except clause of lines 241-242
MatchResult(g, acc) ==
    IF acc.raised
    THEN [raised |-> TRUE, matched |-> FALSE, q |-> MatchQuality,
          evaluated |-> acc.evaluated]
    ELSE IF acc.qs = <<>> THEN NoMatch(acc.evaluated)
    ELSE [raised |-> FALSE, matched |-> TRUE,
          q |-> PyMax(g, Head(acc.qs), Tail(acc.qs)),
          evaluated |-> acc.evaluated]

NoQualities == [raised |-> FALSE, qs |-> <<>>, evaluated |-> 0]

\* Context.matches after its first test: the selectors that apply (lines
\* 181-183), the three loops, the except clause and the final max
evaluate_selectors(ctx, fg, g, cls, node, targetNode, prop) ==
    MatchResult(g,
        RunSelectors(g, "property",
            IF prop THEN propertySelectors(fg, cls, node) ELSE <<>>, targetNode,
            RunSelectors(g, "class",
                IF ~prop THEN classSelectors(fg, cls, node) ELSE <<>>, targetNode,
                RunSelectors(g, "instance",
                    IF ~prop THEN instanceSelectors(fg, cls, node) ELSE <<>>,
                    targetNode, NoQualities))))

\* A slip: the label-mode test of Context.matches left out
matches_without_label_test(ctx, fg, g, cls, node, targetNode, prop) ==
    evaluate_selectors(ctx, fg, g, cls, node, targetNode, prop)

\* Context.matches(lof, targetNode, prop): [raised, matched, q, evaluated];
\* raised is the FresnelException of line 242, matched FALSE the return of
\* False, evaluated the number of selectors the loops looked at
matches(ctx, fg, g, cls, node, targetNode, prop) ==
    IF ctx.label /\ "labelLens" \notin purposes(fg, cls, node)
    THEN NoMatch(0)
    ELSE evaluate_selectors(ctx, fg, g, cls, node, targetNode, prop)

-----------------------------------------------------------------------------
(* list.sort(key=lambda x: x[1]) as CPython runs it on a short list: the    *)
(* leading run is found (and reversed when strictly descending), the rest   *)
(* is inserted by binary search.  Only "<" on the keys is used.  An item is *)
(* a pair <<rule, quality>>.                                                *)

ISLT(g, x, y) == MatchQuality_lt(g.sub, x[2], y[2])

\* count_run: length of the leading run, while it goes on
RECURSIVE RunLength(_, _, _, _)
RunLength(g, l, n, descending) ==
    IF n >= Len(l) THEN n
    ELSE IF ISLT(g, l[n + 1], l[n]) = descending
         THEN RunLength(g, l, n + 1, descending)
         ELSE n

Reverse(l) == [i \in 1..Len(l) |-> l[Len(l) + 1 - i]]

\* binarysort's search for the place of pivot in the sorted prefix, the C
\* loop "do { p = l + ((r - l) >> 1); ... } while (l < r)", 1-based
RECURSIVE InsertionPoint(_, _, _, _, _)
InsertionLoop(g, sorted, pivot, lo, hi) ==
    IF lo < hi THEN InsertionPoint(g, sorted, pivot, lo, hi) ELSE lo

InsertionStep(g, sorted, pivot, lo, hi, p) ==
    IF ISLT(g, pivot, sorted[p])
    THEN InsertionLoop(g, sorted, pivot, lo, p)
    ELSE InsertionLoop(g, sorted, pivot, p + 1, hi)

InsertionPoint(g, sorted, pivot, lo, hi) ==
    InsertionStep(g, sorted, pivot, lo, hi, lo + ((hi - lo) \div 2))

InsertAt(sorted, pivot, at) ==
    SubSeq(sorted, 1, at - 1) \o <<pivot>> \o SubSeq(sorted, at, Len(sorted))

\* binarysort: each later item is inserted into the sorted prefix
RECURSIVE BinarySort(_, _, _)
BinarySort(g, sorted, rest) ==
    IF rest = <<>> THEN sorted
    ELSE BinarySort(g,
             InsertAt(sorted, Head(rest),
                      InsertionPoint(g, sorted, Head(rest), 1, Len(sorted) + 1)),
             Tail(rest))

SortRun(g, l, descending, n) ==
    BinarySort(g,
        IF descending THEN Reverse(SubSeq(l, 1, n)) ELSE SubSeq(l, 1, n),
        SubSeq(l, n + 1, Len(l)))

SortFrom(g, l, descending) ==
    SortRun(g, l, descending, RunLength(g, l, 2, descending))

PySort(g, l) ==
    IF Len(l) < 2 THEN l ELSE SortFrom(g, l, ISLT(g, l[2], l[1]))

-----------------------------------------------------------------------------
(* Context.lens and Context.fmt *)

\* ((l, self.matches(l, target)) for l in rules) filtered on x[1]: the pairs
\* that matched, in order, and whether a matches call raised
MatchedPair(rule, m) == IF m.matched THEN <<<<rule, m.q>>>> ELSE <<>>

RECURSIVE MatchAll(_, _, _, _, _, _, _, _)
MatchAllNext(ctx, fg, g, cls, rules, target, prop, acc, m) ==
    IF m.raised THEN [raised |-> TRUE, pairs |-> <<>>]
    ELSE MatchAll(ctx, fg, g, cls, Tail(rules), target, prop,
                  [raised |-> FALSE,
                   pairs |-> acc.pairs \o MatchedPair(Head(rules), m)])

MatchAll(ctx, fg, g, cls, rules, target, prop, acc) ==
    IF rules = <<>> THEN acc
    ELSE MatchAllNext(ctx, fg, g, cls, rules, target, prop, acc,
                      matches(ctx, fg, g, cls, Head(rules), target, prop))

\* [x for x in l if x[1] == first[1]]
RECURSIVE EqualToFirst(_, _, _)
EqualToFirst(g, first, l) ==
    IF l = <<>> THEN <<>>
    ELSE (IF MatchQuality_eq(g.sub, Head(l)[2], first[2])
          THEN <<Head(l)>> ELSE <<>>) \o EqualToFirst(g, first, Tail(l))

\* Lines 125-127 and 148-150: sort by quality, keep what equals the first
KeepEqualToFirst(g, sorted) == EqualToFirst(g, sorted[1], sorted)

SortedBest(g, pairs) == KeepEqualToFirst(g, PySort(g, pairs))

\* [x for x in l if fresnel.defaultLens in x[0].purposes]
RECURSIVE WithDefaultPurpose(_, _)
WithDefaultPurpose(fg, l) ==
    IF l = <<>> THEN <<>>
    ELSE (IF "defaultLens" \in purposes(fg, "Lens", Head(l)[1])
          THEN <<Head(l)>> ELSE <<>>) \o WithDefaultPurpose(fg, Tail(l))

\* Lines 131-132: lensesmatched_new if it is not empty
OrElse(new, old) == IF new # <<>> THEN new ELSE old

\* Lines 128-132
PreferDefault(fg, best) ==
    IF Len(best) > 1 THEN OrElse(WithDefaultPurpose(fg, best), best) ELSE best

\* Lines 133-135 and 151-153: the warning and the return
Chosen(final) ==
    [raised |-> FALSE, result |-> final[1][1], warned |-> Len(final) > 1]

\* A slip: the fallback of the other mode
Fallback_modes_swapped(ctx) ==
    IF ctx.label THEN ctx.fallbackLens ELSE ctx.fallbackLabelLens

\* Line 124
Fallback(ctx) ==
    IF ctx.label THEN ctx.fallbackLabelLens ELSE ctx.fallbackLens

\* Context.lens() after the candidates were matched
LensOf(ctx, fg, g, all) ==
    IF all.raised THEN [raised |-> TRUE, result |-> None, warned |-> FALSE]
    ELSE IF all.pairs = <<>>
    THEN [raised |-> FALSE, result |-> Fallback(ctx), warned |-> FALSE]
    ELSE Chosen(PreferDefault(fg, SortedBest(g, all.pairs)))

\* The candidates of Context.lens (line 119)
LensCandidates(ctx, fg) ==
    IF TruthyList(ctx.lensCandidates) THEN ctx.lensCandidates
    ELSE FresnelCache_lenses(fg)

NoPairs == [raised |-> FALSE, pairs |-> <<>>]

\* Context.lens(): [raised, result, warned]
Context_lens(ctx, fg, g) ==
    LensOf(ctx, fg, g,
           MatchAll(ctx, fg, g, "Lens", LensCandidates(ctx, fg), ctx.baseNode,
                    FALSE, NoPairs))

\* Context.fmt() after the candidates were matched
FmtOf(g, all) ==
    IF all.raised THEN [raised |-> TRUE, result |-> None, warned |-> FALSE]
    ELSE IF all.pairs = <<>>
    THEN [raised |-> FALSE, result |-> None, warned |-> FALSE]
    ELSE Chosen(SortedBest(g, all.pairs))

\* The candidates of Context.fmt (line 142)
FmtCandidates(ctx, fg) ==
    IF TruthyList(ctx.fmtCandidates) THEN ctx.fmtCandidates
    ELSE FresnelCache_fmts(fg)

\* Context.fmt(prop): [raised, result, warned]
Context_fmt(ctx, fg, g, prop) ==
    FmtOf(g, MatchAll(ctx, fg, g, "Format", FmtCandidates(ctx, fg),
                      ctx.baseNode, prop, NoPairs))

-----------------------------------------------------------------------------
(* SpecQuality: report* calls on two MatchQuality objects, and comparisons *)

NoRules == <<>>
NoContext == [label |-> FALSE]
NoCall == [op |-> "none"]
NoCmp == [done |-> FALSE]

\* No rendering is going on
NoTree ==
    /\ ctxs = <<>>
    /\ boxes = <<>>
    /\ status = [phase |-> "none"]
    /\ plan = [roots |-> {}, appends |-> 0, selects |-> 0, calls |-> <<>>]
    /\ result = [raised |-> None, at |-> 0, xml |-> <<>>]

InitQuality ==
    /\ instanceGraph \in [sub : SUBSET SubClassEdges]
    /\ fresnelGraph = NoRules
    /\ qa = MatchQuality
    /\ qb = MatchQuality
    /\ cmp = NoCmp
    /\ cx = NoContext
    /\ ret = NoCall
    /\ NoTree

\* Any report* call on qa or on qb
Report(q, q2) ==
    \/ \E c \in Classes : q2 = reportClassMatch(q, c)
    \/ q2 = reportInstanceMatch(q)
    \/ q2 = reportSimpleSelector(q)
    \/ q2 = reportRelativeQuery(q)
    \/ q2 = reportAbsoluteQuery(q)
    \/ \E s \in 0..MaxSpecifity : q2 = reportQuerySpecifity(q, s)

ReportA ==
    /\ Report(qa, qa')
    /\ cmp' = NoCmp
    /\ UNCHANGED <<instanceGraph, fresnelGraph, qb, cx, ret, tree>>

ReportB ==
    /\ Report(qb, qb')
    /\ cmp' = NoCmp
    /\ UNCHANGED <<instanceGraph, fresnelGraph, qa, cx, ret, tree>>

\* qa <= qb, qb <= qa, qa < qb, qa == qb evaluated on the current objects
Compare ==
    /\ cmp = NoCmp
    /\ cmp' = IF le_raises(qa, qb)
              THEN [done |-> TRUE, raised |-> "AttributeError"]
              ELSE [done |-> TRUE, raised |-> None,
                    le |-> MatchQuality_le(instanceGraph.sub, qa, qb),
                    ge |-> MatchQuality_le(instanceGraph.sub, qb, qa),
                    lt |-> MatchQuality_lt(instanceGraph.sub, qa, qb),
                    eq |-> MatchQuality_eq(instanceGraph.sub, qa, qb)]
    /\ UNCHANGED <<instanceGraph, fresnelGraph, qa, qb, cx, ret, tree>>

NextQuality == ReportA \/ ReportB \/ Compare

SpecQuality == InitQuality /\ [][NextQuality]_vars

-----------------------------------------------------------------------------
(* Claims on MatchQuality, checked under SpecQuality *)

\* sub reaches sup along a chain of rdfs:subClassOf triples (possibly empty)
IsSubClassOf(edges, sub, sup) ==
    \E n \in 1..Cardinality(Classes) :
        \E path \in [1..n -> Classes] :
            /\ path[1] = sub
            /\ path[n] = sup
            /\ \A i \in 1..(n - 1) : <<path[i], path[i + 1]>> \in edges

\* sup is above sub in the hierarchy and sub is not above sup
StrictSuperclass(edges, sup, sub) ==
    IsSubClassOf(edges, sub, sup) /\ ~IsSubClassOf(edges, sup, sub)

ComparedClassMatches ==
    /\ cmp.done /\ cmp.raised = None
    /\ qa.classMatch /\ qa.simple
    /\ qb.classMatch /\ qb.simple

\* C2: when qa and qb both report a class match with a simple selector and
\* qa's class is a strict superclass of qb's class, qb is strictly greater:
\* qa <= qb and qa < qb hold, qb <= qa and qa == qb do not.
C2_SubclassWins ==
    (ComparedClassMatches
        /\ StrictSuperclass(instanceGraph.sub, qa.classNode, qb.classNode))
    => (cmp.le /\ cmp.lt /\ ~cmp.ge /\ ~cmp.eq)

\* C2 witness: a comparison of two simple class matches where qa's class is
\* a superclass of qb's only through an intermediate class
C2_Witness ==
    /\ ComparedClassMatches
    /\ StrictSuperclass(instanceGraph.sub, qa.classNode, qb.classNode)
    /\ <<qb.classNode, qa.classNode>> \notin instanceGraph.sub

\* The position of a quality in the order instance match, simple selector,
\* relative query, specifity (most significant first)
Rank(q) ==
    ((BoolInt(~q.classMatch) * 2 + BoolInt(q.simple)) * 2 + BoolInt(q.relative))
        * (MaxSpecifity + 1) + q.specifity

IsSimple(q) == q.simple
IsRelative(q) == ~q.simple /\ q.relative
IsAbsolute(q) == ~q.simple /\ ~q.relative

\* C3: when qa and qb are not both class matches, qa <= qb iff qa's tuple
\* (instance match, simple selector, relative query, specifity) is
\* lexicographically <= qb's; so an instance match is greater than a class
\* match, and among instance matches simple > relative > absolute whatever
\* the specifity, which decides only between otherwise equal qualities.
C3_LexicographicOrder ==
    (cmp.done /\ cmp.raised = None /\ ~(qa.classMatch /\ qb.classMatch))
    => /\ cmp.le <=> (Rank(qa) <= Rank(qb))
       /\ cmp.ge <=> (Rank(qb) <= Rank(qa))
       /\ cmp.lt <=> (Rank(qa) < Rank(qb))
       /\ cmp.eq <=> (Rank(qa) = Rank(qb))
       /\ (qa.classMatch /\ ~qb.classMatch) => cmp.lt
       /\ (~qa.classMatch /\ ~qb.classMatch) =>
            /\ (IsRelative(qa) /\ IsSimple(qb)) => cmp.lt
            /\ (IsAbsolute(qa) /\ IsRelative(qb)) => cmp.lt
            /\ (IsAbsolute(qa) /\ IsSimple(qb)) => cmp.lt
            /\ (qa.simple = qb.simple /\ qa.relative = qb.relative)
                => (cmp.le <=> qa.specifity <= qb.specifity)

\* C3 witness: a class match with the larger specifity compared with an
\* instance match that used a relative query
C3_Witness ==
    /\ cmp.done /\ cmp.raised = None
    /\ qa.classMatch /\ qa.specifity > qb.specifity
    /\ ~qb.classMatch /\ IsRelative(qb)
    /\ cmp.lt

-----------------------------------------------------------------------------
(* SpecMatch: Context.matches on one rule node *)

SeqsUpTo(S, n) == UNION {[1..k -> S] : k \in 0..n}

\* Nodes a lens or format is looked up for: "t" is typed, "o" is not
Targets == {"t", "o"}

RuleNames == <<"rule1", "rule2", "rule3", "rule4">>

ClassDomains == {<<>>, <<"A">>, <<"B">>, <<"C">>, <<"A", "B">>, <<"B", "A">>}

\* Rule nodes typed fresnel:Lens
LensNodes(instanceDomains, classDomains) ==
    [node : {"rule"}, types : {{"Lens"}},
     instanceDomain : instanceDomains, classDomain : classDomains,
     propertyDomain : {<<>>}, purpose : SUBSET Purposes]

\* Rule nodes typed fresnel:Format; a fresnel:purpose triple on a format is
\* possible in the graph, Format.purposes does not read it
FormatNodes(instanceDomains, classDomains, propertyDomains) ==
    [node : {"rule"}, types : {{"Format"}},
     instanceDomain : instanceDomains, classDomain : classDomains,
     propertyDomain : propertyDomains,
     purpose : {{}, {"labelLens"}, {"defaultLens"}}]

MatchRules ==
    LensNodes(SeqsUpTo({"t", "ASK", "FSL"}, MaxSelectors), ClassDomains)
    \cup FormatNodes(SeqsUpTo({"t", "ASK", "FSL"}, MaxSelectors), ClassDomains,
                     {<<>>, <<"t">>, <<"ASK">>})

InitMatch ==
    /\ instanceGraph \in
         [sub : {{<<"B", "A">>}},
          types : {[n \in Targets |-> IF n = "t" THEN T ELSE {}] :
                      T \in {{}, {"B"}, {"B", "C"}}},
          ask : SUBSET {<<"ASK", "t">>}]
    /\ \E r \in MatchRules : fresnelGraph = <<[r EXCEPT !.node = RuleNames[1]]>>
    /\ \E l \in BOOLEAN : cx = Context([baseNode |-> "t", label |-> l])
    /\ ret = NoCall
    /\ qa = MatchQuality /\ qb = MatchQuality /\ cmp = NoCmp
    /\ NoTree

\* ctx.matches(lof, targetNode, prop), lof the Lens or Format view of the node
CallMatches ==
    \E cls \in fresnelGraph[1].types, targetNode \in Targets, prop \in BOOLEAN :
        /\ ret' = [op |-> "matches", cls |-> cls, node |-> fresnelGraph[1].node,
                   targetNode |-> targetNode, prop |-> prop,
                   out |-> matches(cx, fresnelGraph, instanceGraph, cls,
                                   fresnelGraph[1].node, targetNode, prop)]
        /\ UNCHANGED <<instanceGraph, fresnelGraph, qa, qb, cmp, cx, tree>>

NextMatch == CallMatches

SpecMatch == InitMatch /\ [][NextMatch]_vars

-----------------------------------------------------------------------------
(* SpecLens: Context.lens and Context.fmt on a rule graph *)

\* Rule nodes with at most one selector
LensRules ==
    LensNodes({<<>>, <<"t">>, <<"ASK">>}, {<<>>})
    \cup LensNodes({<<>>}, {<<"A">>, <<"B">>, <<"C">>})
    \cup FormatNodes({<<>>, <<"t">>, <<"ASK">>}, {<<>>}, {<<>>})
    \cup FormatNodes({<<>>}, {<<"A">>, <<"B">>, <<"C">>}, {<<>>})
    \cup FormatNodes({<<>>}, {<<>>}, {<<"t">>})

\* Lens objects the caller may have configured as fallbacks
FallbackLenses == {None, "fallback"}
FallbackLabelLenses == {None, "fallbackLabel"}

InitLens ==
    /\ instanceGraph =
         [sub |-> {<<"B", "A">>},
          types |-> [n \in Targets |-> IF n = "t" THEN {"B", "C"} ELSE {}],
          ask |-> {<<"ASK", "t">>}]
    /\ \E n \in 0..MaxRules : \E f \in [1..n -> LensRules] :
          fresnelGraph = [i \in 1..n |-> [f[i] EXCEPT !.node = RuleNames[i]]]
    /\ \E l \in BOOLEAN, fb \in FallbackLenses, fbl \in FallbackLabelLenses :
          cx = Context([baseNode |-> "t", label |-> l,
                        fallbackLens |-> fb, fallbackLabelLens |-> fbl])
    /\ ret = NoCall
    /\ qa = MatchQuality /\ qb = MatchQuality /\ cmp = NoCmp
    /\ NoTree

\* cx.lens()
CallLens ==
    /\ ret' = [op |-> "lens", prop |-> FALSE,
               out |-> Context_lens(cx, fresnelGraph, instanceGraph)]
    /\ UNCHANGED <<instanceGraph, fresnelGraph, qa, qb, cmp, cx, tree>>

\* cx.fmt(prop)
CallFmt ==
    \E prop \in BOOLEAN :
        /\ ret' = [op |-> "fmt", prop |-> prop,
                   out |-> Context_fmt(cx, fresnelGraph, instanceGraph, prop)]
        /\ UNCHANGED <<instanceGraph, fresnelGraph, qa, qb, cmp, cx, tree>>

NextLens == CallLens \/ CallFmt

SpecLens == InitLens /\ [][NextLens]_vars

-----------------------------------------------------------------------------
(* Claims on Context.matches, checked under SpecMatch *)

\* C4: in label-mode a rule whose purposes (as the Lens or Format view gives
\* them) do not hold fresnel:labelLens gets no-match, no exception and no
\* selector evaluated, whatever the target and the prop flag; a Format view,
\* whose purposes are always empty, never matches in label-mode.
C4_LabelModeFailsClosed ==
    (ret.op = "matches" /\ cx.label)
    => /\ ("labelLens" \notin purposes(fresnelGraph, ret.cls, ret.node))
            => (~ret.out.matched /\ ~ret.out.raised /\ ret.out.evaluated = 0)
       /\ (ret.cls = "Format")
            => (~ret.out.matched /\ ~ret.out.raised /\ ret.out.evaluated = 0)

\* C4 witness: label-mode, a lens without the label purpose whose selectors
\* hold the target itself and a selector in an unsupported language (its
\* evaluation would raise): the call returned no-match
C4_Witness ==
    /\ ret.op = "matches" /\ cx.label /\ ret.cls = "Lens"
    /\ ~ret.prop /\ ret.targetNode = "t"
    /\ NodeRec(fresnelGraph, ret.node).purpose = {"defaultLens"}
    /\ NodeRec(fresnelGraph, ret.node).instanceDomain = <<"t", "FSL">>
    /\ ~ret.out.matched /\ ~ret.out.raised

-----------------------------------------------------------------------------
(* Claims on Context.lens and Context.fmt, checked under SpecLens *)

\* The candidates the call of ret chose from
CallCandidates ==
    IF ret.op = "lens" THEN LensCandidates(cx, fresnelGraph)
    ELSE FmtCandidates(cx, fresnelGraph)

CallClass == IF ret.op = "lens" THEN "Lens" ELSE "Format"

\* What matching the candidate rule against the target of the call gives
CallMatch(rule) ==
    matches(cx, fresnelGraph, instanceGraph, CallClass, rule, cx.baseNode,
            ret.prop)

MatchingCandidates ==
    {rule \in {CallCandidates[i] : i \in 1..Len(CallCandidates)} :
        CallMatch(rule).matched}

Returned == ret.op \in {"lens", "fmt"} /\ ~ret.out.raised

\* C1: when at least one candidate matches, the rule Context.lens or
\* Context.fmt returns matches the target, and no other matching candidate
\* has a strictly greater MatchQuality.
C1_ReturnsMaximalQuality ==
    (Returned /\ MatchingCandidates # {})
    => /\ ret.out.result \in MatchingCandidates
       /\ \A other \in MatchingCandidates :
            ~MatchQuality_lt(instanceGraph.sub, CallMatch(ret.out.result).q,
                             CallMatch(other).q)

\* C5 as amended: when no candidate lens matches, Context.lens returns the
\* fallback field of the current mode (fallbackLabelLens in label-mode,
\* fallbackLens otherwise) as it is, which is None when that field was not
\* configured, also when the other mode's fallback is; Context.fmt returns
\* None when no format matches.
C5_FallbackOrNone ==
    (Returned /\ MatchingCandidates = {})
    => /\ (ret.op = "lens" /\ cx.label)
            => ret.out.result = cx.fallbackLabelLens
       /\ (ret.op = "lens" /\ ~cx.label)
            => ret.out.result = cx.fallbackLens
       /\ (ret.op = "fmt") => ret.out.result = None
       /\ ~ret.out.warned

\* C5 witness: label-mode, no lens matches, only the fallback of the other
\* mode is configured, and Context.lens returned None
C5_Witness ==
    /\ ret.op = "lens" /\ ~ret.out.raised /\ MatchingCandidates = {}
    /\ FresnelCache_lenses(fresnelGraph) # <<>>
    /\ cx.label /\ cx.fallbackLens # None /\ cx.fallbackLabelLens = None
    /\ ret.out.result = None

\* C5 as stated: when no candidate lens matches, Context.lens returns a lens
\* (the fallback configured for the mode, else a built-in default), never
\* "no lens"; Context.fmt returns None when no format matches.
C5_NeverNoLens ==
    (Returned /\ MatchingCandidates = {})
    => /\ (ret.op = "lens") => ret.out.result # None
       /\ (ret.op = "lens" /\ cx.label /\ cx.fallbackLabelLens # None)
            => ret.out.result = cx.fallbackLabelLens
       /\ (ret.op = "lens" /\ ~cx.label /\ cx.fallbackLens # None)
            => ret.out.result = cx.fallbackLens
       /\ (ret.op = "fmt") => ret.out.result = None

-----------------------------------------------------------------------------
(* The box tree: bounds *)

\* Largest depth option the caller gives the root context
MaxDepth == 2

\* Largest fresnel:depth a property description declares
MaxDeclaredDepth == 1

\* Most nodes appended to the ContainerBox
MaxRoots == 1

\* Most nodes appended to the ContainerBox, and most select calls on it,
\* under SpecContainer
MaxContainerRoots == 2
MaxSelects == 2

-----------------------------------------------------------------------------
(* The box tree: nodes of the instance graph and of the rule graph *)

Resources == {"r1", "r2", "r3"}
Predicates == {"p", "q"}
BNodes == {"_:b"}

\* Literals of the instance graph, and a literal a rule gives as a label
Literals == {"hello@en", "hallo@de", "salut@fr", "coi@jbo", "plain", "Manual"}

\* A literal of datatype fresnel:sparqlSelector in the place of a property
SparqlQueries == {"SELECT"}

\* Literals of a format: style classes, styling instructions, and content
\* of a format hook
StyleClasses == {"big", "bold"}
StylingInstructions == {"color:red", "margin:0"}
ContentLiterals == {"[", "]", ", ", "(none)"}

\* isinstance(v, Literal)
IsLiteral(v) ==
    v \in Literals \cup SelectorLiterals \cup SparqlQueries
          \cup StyleClasses \cup StylingInstructions \cup ContentLiterals

\* Literal.datatype
datatype(v) ==
    IF v \in StyleClasses THEN "styleClass"
    ELSE IF v \in StylingInstructions THEN "stylingInstructions"
    ELSE IF v \in SparqlSelectors \cup SparqlQueries THEN "sparqlSelector"
    ELSE None

\* Literal.language
language(v) ==
    CASE v = "hello@en" -> "en"
      [] v = "hallo@de" -> "de"
      [] v = "salut@fr" -> "fr"
      [] v = "coi@jbo" -> "jbo"
      [] OTHER -> None

\* A fresnel:depth that is not declared (nodeProp returns None)
NoDepth == -1

\* Python truth value of a depth: None and 0 are false.  A fresnel:depth
\* literal is read as the integer it holds.
TruthyDepth(depth) == depth # NoDepth /\ depth # 0

\* [F(x) for x in l]
Map(l, F(_)) == [i \in 1..Len(l) |-> F(l[i])]

\* x in l
In(x, l) == \E i \in 1..Len(l) : l[i] = x

-----------------------------------------------------------------------------
(* PropertyDescription.  A description node of the rule graph is a record   *)
(* of its triples: node, types, property, mergeProperties,                 *)
(* alternateProperties (the members of the collection, NoCandidates when   *)
(* the property is absent), sublens, depth, label, use.                    *)

\* The object PropertyDescription.__init__ leaves for a query (lines
\* 643-652) and for a plain property (lines 679-686)
SimpleDescription(d) ==
    [node |-> d.node, sublenses |-> <<>>, properties |-> <<d.node>>,
     depth |-> 0, label |-> None, alt |-> FALSE, merge |-> FALSE,
     useFmt |-> None, unset |-> {}]

\* Lines 674-677: the last fresnel:use object that is typed fresnel:Format
UseFmt(fg, use) ==
    LET IsFormat(f) == In(f, FresnelCache_fmts(fg))
        fmts == SelectSeq(use, IsFormat)
    IN  IF fmts = <<>> THEN None ELSE fmts[Len(fmts)]

\* Lines 654-677; unset holds the slots no branch assigned (line 671 builds
\* an exception and goes on)
CompoundDescription(fg, d) ==
    [node |-> d.node, sublenses |-> d.sublens,
     properties |->
        IF d.property # <<>> THEN d.property
        ELSE IF d.mergeProperties # NoCandidates THEN d.mergeProperties
        ELSE IF d.alternateProperties # NoCandidates THEN d.alternateProperties
        ELSE <<>>,
     depth |-> d.depth, label |-> d.label,
     alt |-> d.property = <<>> /\ d.mergeProperties = NoCandidates
             /\ d.alternateProperties # NoCandidates,
     merge |-> d.property = <<>> /\ d.mergeProperties # NoCandidates,
     useFmt |-> UseFmt(fg, d.use),
     unset |-> IF d.property = <<>> /\ d.mergeProperties = NoCandidates
                  /\ d.alternateProperties = NoCandidates
               THEN {"properties", "alt", "merge"} ELSE {}]

\* PropertyDescription.__init__
PropertyDescription(fg, d) ==
    IF IsLiteral(d.node) THEN SimpleDescription(d)
    ELSE IF "PropertyDescription" \in d.types THEN CompoundDescription(fg, d)
    ELSE SimpleDescription(d)

\* Lens.showProperties: the descriptions of the fresnel:showProperties list
Lens_showProperties(fg, node) ==
    LET Description(d) == PropertyDescription(fg, d)
    IN  Map(NodeRec(fg, node).showProperties, Description)

\* Lens.hideProperties: [] without fresnel:hideProperties; with it, line 425
\* reads the name show, which the method does not define
Lens_hideProperties(fg, node) ==
    IF NodeRec(fg, node).hideProperties = None
    THEN [raised |-> None, result |-> <<>>]
    ELSE [raised |-> "NameError", result |-> <<>>]

-----------------------------------------------------------------------------
(* PropertyBoxList.resolveDescription and the grouping of the arcs.  The   *)
(* instance graph holds its triples as the sequence g.arcs of              *)
(* <<subject, predicate, object>>, in the order the store enumerates them, *)
(* and the rows a SELECT gives as g.select, <<target, prop, obj>>.         *)

\* Graph.objects(resourceNode, prop), as arcs (prop, v)
ObjectArcs(g, resourceNode, prop) ==
    LET Hit(t) == t[1] = resourceNode /\ t[2] = prop
        Arc(t) == <<t[2], t[3]>>
    IN  Map(SelectSeq(g.arcs, Hit), Arc)

\* The rows of a SPARQL SELECT with ?target bound (lines 747-753)
QueryArcs(g, resourceNode) ==
    LET Hit(t) == t[1] = resourceNode
        Arc(t) == <<t[2], t[3]>>
    IN  Map(SelectSeq(g.select, Hit), Arc)

\* r[0] is a literal or a blank node (line 751)
BadRow(arcs) ==
    \E i \in 1..Len(arcs) :
        arcs[i][1] # None /\ (IsLiteral(arcs[i][1]) \/ arcs[i][1] \in BNodes)

\* One pass of the loop of resolveDescription
ResolveProperty(g, resourceNode, prop) ==
    IF prop \in BNodes THEN [raised |-> "FresnelException", arcs |-> <<>>]
    ELSE IF IsLiteral(prop)
    THEN IF prop \in SparqlSelectors \cup SparqlQueries
         THEN IF BadRow(QueryArcs(g, resourceNode))
              THEN [raised |-> "FresnelException", arcs |-> <<>>]
              ELSE [raised |-> None, arcs |-> QueryArcs(g, resourceNode)]
         ELSE [raised |-> "FresnelException", arcs |-> <<>>]
    ELSE [raised |-> None, arcs |-> ObjectArcs(g, resourceNode, prop)]

Resolved(acc, r) == [raised |-> r.raised, arcs |-> acc.arcs \o r.arcs]

RECURSIVE ResolveProperties(_, _, _, _)
ResolveProperties(g, resourceNode, props, acc) ==
    IF props = <<>> \/ acc.raised # None THEN acc
    ELSE ResolveProperties(g, resourceNode, Tail(props),
            Resolved(acc, ResolveProperty(g, resourceNode, Head(props))))

NoArcs == [raised |-> None, arcs |-> <<>>]

\* PropertyBoxList.resolveDescription(descr): [raised, arcs]
resolveDescription(g, resourceNode, descr) ==
    IF "properties" \in descr.unset
    THEN [raised |-> "AttributeError", arcs |-> <<>>]
    ELSE ResolveProperties(g, resourceNode, descr.properties, NoArcs)

\* [v for (_, v) in arcs]
ArcValues(arcs) == [i \in 1..Len(arcs) |-> arcs[i][2]]

\* [(p, v) for (p, v) in arcs if p == groupp]
ArcsOf(arcs, groupp) ==
    LET Same(a) == a[1] = groupp IN SelectSeq(arcs, Same)

\* A slip: the groups are not told apart, each gets the values of all arcs
RECURSIVE NormalGroups_unfiltered(_, _)
NormalGroups_unfiltered(arcs, order) ==
    IF order = <<>> THEN <<>>
    ELSE (IF ArcsOf(arcs, Head(order)) # <<>>
          THEN <<[referenceProperty |-> Head(order),
                  valueNodes |-> ArcValues(arcs)]>>
          ELSE <<>>) \o NormalGroups_unfiltered(arcs, Tail(order))

\* Lines 727-730: one group per member of the set {p for (p, _) in arcs},
\* in the order the set iterates, which is any order; order lists every
\* node that can be a predicate
RECURSIVE NormalGroups(_, _)
NormalGroups(arcs, order) ==
    IF order = <<>> THEN <<>>
    ELSE (IF ArcsOf(arcs, Head(order)) # <<>>
          THEN <<[referenceProperty |-> Head(order),
                  valueNodes |-> ArcValues(ArcsOf(arcs, Head(order)))]>>
          ELSE <<>>) \o NormalGroups(arcs, Tail(order))

\* Lines 715-730: the (referenceProperty, valueNodes) of the PropertyBoxes
\* one description gives
Groups(descr, arcs, order) ==
    IF descr.merge
    THEN IF arcs # <<>>
         THEN <<[referenceProperty |-> None, valueNodes |-> ArcValues(arcs)]>>
         ELSE <<>>
    ELSE IF descr.alt
    THEN IF arcs # <<>>
         THEN <<[referenceProperty |-> arcs[1][1],
                 valueNodes |-> ArcValues(ArcsOf(arcs, arcs[1][1]))]>>
         ELSE <<>>
    ELSE NormalGroups(arcs, order)

\* The orders the set of the predicates of a graph may iterate in
SetOrders(g) ==
    LET all == {g.arcs[i][2] : i \in 1..Len(g.arcs)}
               \cup {g.select[i][2] : i \in 1..Len(g.select)}
    IN  {o \in [1..Cardinality(all) -> all] :
            \A i, j \in DOMAIN o : i # j => o[i] # o[j]}

-----------------------------------------------------------------------------
(* Context.clone, Context.picklang, and the depth rule of PropertyBox.select *)

\* Cloning as the docstring of Context has it: lensCandidates is not taken
\* from the other context; a change that names it still applies
Context_other_candidates_reset(other, changes) ==
    [f \in DOMAIN other |->
        IF f \in DOMAIN changes THEN changes[f]
        ELSE IF f = "lensCandidates" THEN NoCandidates
        ELSE other[f]]

\* A slip: the label slot of the other context is not copied
Context_other_label_lost(other, changes) ==
    [f \in DOMAIN other |->
        IF f \in DOMAIN changes THEN changes[f]
        ELSE IF f = "label" THEN FALSE
        ELSE other[f]]

\* Context(other=self) and the setattr loop of clone: the fields of the new
\* object (changes is a record of the fields given)
Context_other(other, changes) ==
    [f \in DOMAIN other |-> IF f \in DOMAIN changes THEN changes[f] ELSE other[f]]

NoChanges == [x \in {} |-> None]

\* A slip: clone hands out the object it was called on, with the changes
\* assigned to it
Context_clone_shared(h, self, changes) ==
    [h |-> [h EXCEPT !.ctxs[self] = Context_other(@, changes)], ctx |-> self]

\* Context.clone(**changes) of the context with id self: the objects of the
\* rendering with the new context among them (h), and its id (ctx)
Context_clone(h, self, changes) ==
    [h |-> [h EXCEPT !.ctxs = Append(@, Context_other(h.ctxs[self], changes))],
     ctx |-> Len(h.ctxs) + 1]

\* Context.picklang(available_langs)
picklang(self, available_langs) ==
    LET Available(l) == In(l, available_langs)
        matching == SelectSeq(self.langs, Available)
    IN  IF matching # <<>> THEN matching[1] ELSE None

\* Line 939
ValueLanguages(valueNodes) == Map(SelectSeq(valueNodes, IsLiteral), language)

\* Lines 939-942: the valueNodes after language negotiation
NegotiatedValues(self, valueNodes) ==
    LET chosen == picklang(self, ValueLanguages(valueNodes))
        Keep(v) == ~IsLiteral(v) \/ language(v) = chosen
    IN  IF ValueLanguages(valueNodes) # <<>> THEN SelectSeq(valueNodes, Keep)
        ELSE valueNodes

\* A slip: the depth of the value contexts never goes down
ChildDepth_kept(depth, descr) == depth

\* Lines 927-935: the depth of newctx
ChildDepth(depth, descr) ==
    IF TruthyDepth(descr.depth) /\ depth > descr.depth THEN descr.depth
    ELSE IF descr.sublenses # <<>> THEN depth - 1
    ELSE 0

\* A slip: the sublenses are not given to newctx
ChildCandidates_kept(lensCandidates, descr) == lensCandidates

\* Lines 936-937: the lensCandidates of newctx
ChildCandidates(lensCandidates, descr) ==
    IF descr.sublenses # <<>> THEN descr.sublenses ELSE lensCandidates

-----------------------------------------------------------------------------
(* Boxes.  A box is a record with the slots of every Box class; boxes and   *)
(* contexts are named by their index in boxes and ctxs.  node is            *)
(* ResourceBox.resourceNode, LabelBox.node and ValueBox.valueNode; content  *)
(* is the ResourceBox of a ValueBox, whose literal content is its node.     *)
(* parent, level (the nesting of the select call) and given (the           *)
(* valueNodes argument of PropertyBox.__init__) are bookkeeping, selected   *)
(* says that select() of the box has built its children, portrayed that     *)
(* portray() of the box has run.                                            *)

\* No box: a slot holding None
NoBox == 0

NoDescription == [node |-> None]

\* The nesting of select calls Python allows, scaled to the depths in use
RecursionLimit == 6 * MaxDepth + 8

\* A style slot holding None
NoStyle == <<None>>

\* transform was not called
NoResult == [raised |-> None, at |-> NoBox, xml |-> <<>>]

\* Box.__init__ and the __init__ of the subclass
Box(kind, parent, level, node) ==
    [kind |-> kind, context |-> 0, parent |-> parent, level |-> level,
     fmt |-> None, style |-> NoStyle,
     contentFirst |-> None, contentBefore |-> None, contentAfter |-> None,
     contentLast |-> None, contentNoValue |-> None, portrayed |-> FALSE,
     resourceNodes |-> <<>>, resources |-> <<>>,
     node |-> node, lens |-> None, properties |-> <<>>, label |-> NoBox,
     referenceProperty |-> None, propertyDescription |-> NoDescription,
     valueNodes |-> <<>>, values |-> <<>>, content |-> NoBox,
     given |-> <<>>, selected |-> FALSE]

\* ContainerBox.__init__
ContainerBox(context) ==
    [Box("ContainerBox", NoBox, 0, None) EXCEPT !.context = context]

\* PropertyBox.__init__
PropertyBox(parent, level, referenceProperty, propertyDescription, valueNodes) ==
    [Box("PropertyBox", parent, level, None) EXCEPT
        !.referenceProperty = referenceProperty,
        !.propertyDescription = propertyDescription,
        !.valueNodes = valueNodes, !.given = valueNodes]

\* Box.__init__: a new box on the context c.ctx; the box gets the next id
\* (c.h holds the objects of the rendering, c.h.ctxs and c.h.boxes)
NewBox(c, box) ==
    [c.h EXCEPT !.boxes = Append(@, [box EXCEPT !.context = c.ctx])]

\* ResourceBox(context, resourceNode): ResourceBox.__init__ assigns
\* context.baseNode
ResourceBox(c, parent, resourceNode) ==
    NewBox([c EXCEPT !.h.ctxs[c.ctx].baseNode = resourceNode],
           Box("ResourceBox", parent, c.h.boxes[parent].level + 1, resourceNode))

\* LabelBox(context, node): LabelBox.__init__ assigns context.label and
\* context.baseNode
LabelBox(c, parent, node) ==
    NewBox([c EXCEPT !.h.ctxs[c.ctx].label = TRUE,
                     !.h.ctxs[c.ctx].baseNode = node],
           Box("LabelBox", parent, c.h.boxes[parent].level + 1, node))

\* ValueBox(context, valueNode)
ValueBox(c, parent, valueNode) ==
    NewBox(c, Box("ValueBox", parent, c.h.boxes[parent].level + 1, valueNode))

\* The ids of the boxes made between two heaps
Made(before, after) ==
    [i \in 1..(Len(after.boxes) - Len(before.boxes)) |-> Len(before.boxes) + i]

\* The calls x.select() for x in ids
Calls(op, ids) == [i \in 1..Len(ids) |-> [op |-> op, box |-> ids[i], i |-> 0]]

-----------------------------------------------------------------------------
(* PropertyBoxList.__init__ *)

\* Lines 717, 723, 730: a PropertyBox on self.context.clone() per group
RECURSIVE AddPropertyBoxes(_, _, _, _, _)
AddPropertyBoxes(h, listCtx, parent, descr, groups) ==
    IF groups = <<>> THEN h
    ELSE AddPropertyBoxes(
            NewBox(Context_clone(h, listCtx, NoChanges),
                   PropertyBox(parent, h.boxes[parent].level + 1,
                               Head(groups).referenceProperty, descr,
                               Head(groups).valueNodes)),
            listCtx, parent, descr, Tail(groups))

\* The loop of lines 711-730
RECURSIVE ShowLoop(_, _, _, _, _)
ShowNext(h, listCtx, parent, show, order, res) ==
    IF res.raised # None THEN [raised |-> res.raised, h |-> h]
    ELSE ShowLoop(AddPropertyBoxes(h, listCtx, parent, Head(show),
                                   Groups(Head(show), res.arcs, order)),
                  listCtx, parent, Tail(show), order)

ShowLoop(h, listCtx, parent, show, order) ==
    IF show = <<>> THEN [raised |-> None, h |-> h]
    ELSE ShowNext(h, listCtx, parent, show, order,
                  resolveDescription(instanceGraph, h.ctxs[listCtx].baseNode,
                                     Head(show)))

\* Lines 706-709
HideTest(h, listCtx, parent, lens, order, hide) ==
    IF hide.raised # None THEN [raised |-> hide.raised, h |-> h]
    ELSE IF hide.result # <<>> THEN [raised |-> "FresnelException", h |-> h]
    ELSE ShowLoop(h, listCtx, parent, Lens_showProperties(fresnelGraph, lens),
                  order)

\* PropertyBoxList(context, lens) for the box parent, context being c.ctx:
\* [raised, h], the PropertyBoxes are those made
PropertyBoxList(c, parent, lens, order) ==
    IF lens = None THEN [raised |-> None, h |-> c.h]
    ELSE HideTest(c.h, c.ctx, parent, lens, order,
                  Lens_hideProperties(fresnelGraph, lens))

-----------------------------------------------------------------------------
(* ContainerBox.select as a machine.  A machine m holds the objects of the  *)
(* rendering (ctxs, boxes), the select calls still to run (stack, the next  *)
(* one first) and status.  Step runs the next call up to the calls it       *)
(* makes; ResourceBox.select and PropertyBox.select go on after the selects *)
(* of their children, with the part that makes the label.  Run runs         *)
(* ContainerBox.select to its end.                                          *)

Status(phase, error, at) == [phase |-> phase, error |-> error, at |-> at]

Call(op, b) == [op |-> op, box |-> b, i |-> 0]

\* The call ends; calls are the calls it makes, in order
Return(m, calls) == [m EXCEPT !.stack = calls \o Tail(@)]

\* An exception leaves the select of box b; nothing catches it
Raise(m, error, b) ==
    [m EXCEPT !.stack = <<>>, !.status = Status("raised", error, b)]

\* Lines 820-821 with the new ResourceBox put in front of the list
ContainerBox_child_first(m, b, n) ==
    [ResourceBox(Context_clone(m, m.boxes[b].context, NoChanges), b, n)
        EXCEPT !.boxes[b].resources = <<Len(m.boxes) + 1>> \o @]

\* Lines 820-821
ContainerBox_child(m, b, n) ==
    [ResourceBox(Context_clone(m, m.boxes[b].context, NoChanges), b, n)
        EXCEPT !.boxes[b].resources = Append(@, Len(m.boxes) + 1)]

\* One pass of the loop of ContainerBox.select (call.i counts the passes)
ContainerBox_select(m, call) ==
    IF call.i > Len(m.boxes[call.box].resourceNodes)
    THEN Return([m EXCEPT !.boxes[call.box].selected = TRUE], <<>>)
    ELSE Return(ContainerBox_child(m, call.box,
                                   m.boxes[call.box].resourceNodes[call.i]),
                <<Call("ResourceBox.select", Len(m.boxes) + 1),
                  [call EXCEPT !.i = @ + 1]>>)

\* self.properties = PropertyBoxList(...) and the calls p.select()
Properties(b, before, list, after) ==
    IF list.raised # None THEN Raise(before, list.raised, b)
    ELSE Return([list.h EXCEPT !.boxes[b].properties = Made(before, list.h),
                               !.boxes[b].selected = TRUE],
                Calls("PropertyBox.select", Made(before, list.h)) \o after)

\* A slip: the context of the PropertyBoxList keeps the lensCandidates of
\* the ResourceBox
ResourceBox_expand_restricted(m, b, order, found) ==
    IF found.raised THEN Raise(m, "FresnelException", b)
    ELSE Properties(b, [m EXCEPT !.boxes[b].lens = found.result],
            PropertyBoxList(
                Context_clone([m EXCEPT !.boxes[b].lens = found.result],
                              m.boxes[b].context, NoChanges),
                b, found.result, order),
            <<Call("ResourceBox.label", b)>>)

\* Lines 859-864
ResourceBox_expand(m, b, order, found) ==
    IF found.raised THEN Raise(m, "FresnelException", b)
    ELSE Properties(b, [m EXCEPT !.boxes[b].lens = found.result],
            PropertyBoxList(
                Context_clone([m EXCEPT !.boxes[b].lens = found.result],
                              m.boxes[b].context,
                              [lensCandidates |-> NoCandidates]),
                b, found.result, order),
            <<Call("ResourceBox.label", b)>>)

\* ResourceBox.select up to the label (lines 857-864)
ResourceBox_select(m, b, order) ==
    IF m.ctxs[m.boxes[b].context].depth > 0
    THEN ResourceBox_expand(m, b, order,
            Context_lens(m.ctxs[m.boxes[b].context], fresnelGraph,
                         instanceGraph))
    ELSE Return([m EXCEPT !.boxes[b].selected = TRUE],
                <<Call("ResourceBox.label", b)>>)

\* ResourceBox.select from the label on (lines 868-870)
ResourceBox_select_label(m, b) ==
    IF ~m.ctxs[m.boxes[b].context].label
    THEN Return([LabelBox(Context_clone(m, m.boxes[b].context,
                                        [lensCandidates |-> NoCandidates]),
                          b, m.boxes[b].node)
                    EXCEPT !.boxes[b].label = Len(m.boxes) + 1],
                <<Call("LabelBox.select", Len(m.boxes) + 1)>>)
    ELSE Return(m, <<>>)

\* Line 944: a ValueBox on newctx.clone() per value node
RECURSIVE AddValueBoxes(_, _, _, _)
AddValueBoxes(h, newctx, parent, valueNodes) ==
    IF valueNodes = <<>> THEN h
    ELSE AddValueBoxes(ValueBox(Context_clone(h, newctx, NoChanges), parent,
                                Head(valueNodes)),
                       newctx, parent, Tail(valueNodes))

\* Lines 927-937: the assignments to newctx, the context c.ctx
ValueContext(c, descr) ==
    [c.h EXCEPT
        !.ctxs[c.ctx].depth = ChildDepth(c.h.ctxs[c.ctx].depth, descr),
        !.ctxs[c.ctx].lensCandidates =
            ChildCandidates(c.h.ctxs[c.ctx].lensCandidates, descr)]

\* Lines 944-947
PropertyBox_values(b, before, after) ==
    Return([after EXCEPT !.boxes[b].values = Made(before, after),
                         !.boxes[b].selected = TRUE],
           Calls("ValueBox.select", Made(before, after))
           \o <<Call("PropertyBox.label", b)>>)

\* Line 942: self.valueNodes is assigned
PropertyBox_negotiated(b, h, newctx, valueNodes) ==
    PropertyBox_values(b, h,
        AddValueBoxes([h EXCEPT !.boxes[b].valueNodes = valueNodes],
                      newctx, b, valueNodes))

\* Lines 939-942, with self.context as it is after the assignments to newctx
PropertyBox_langs(b, h, newctx) ==
    PropertyBox_negotiated(b, h, newctx,
        NegotiatedValues(h.ctxs[h.boxes[b].context], h.boxes[b].valueNodes))

\* Lines 927-947 for newctx, the context c.ctx
PropertyBox_newctx(b, c) ==
    PropertyBox_langs(b, ValueContext(c, c.h.boxes[b].propertyDescription),
                      c.ctx)

\* PropertyBox.select up to the label (lines 926-947)
PropertyBox_select(m, b) ==
    PropertyBox_newctx(b, Context_clone(m, m.boxes[b].context, NoChanges))

\* Line 952
labelNode(box) ==
    IF box.propertyDescription.label # None THEN box.propertyDescription.label
    ELSE box.referenceProperty

\* PropertyBox.select from the label on (lines 952-955)
PropertyBox_select_label(m, b) ==
    IF ~m.ctxs[m.boxes[b].context].label /\ labelNode(m.boxes[b]) # None
    THEN Return([LabelBox(Context_clone(m, m.boxes[b].context,
                                        [label |-> TRUE]),
                          b, labelNode(m.boxes[b]))
                    EXCEPT !.boxes[b].label = Len(m.boxes) + 1],
                <<Call("LabelBox.select", Len(m.boxes) + 1)>>)
    ELSE Return(m, <<>>)

\* LabelBox.isManual
isManual(box) == IsLiteral(box.node)

\* Lines 1013-1018
LabelBox_expand(m, b, order, found) ==
    IF found.raised THEN Raise(m, "FresnelException", b)
    ELSE Properties(b, [m EXCEPT !.boxes[b].lens = found.result],
            PropertyBoxList(
                Context_clone([m EXCEPT !.boxes[b].lens = found.result],
                              m.boxes[b].context, NoChanges),
                b, found.result, order),
            <<>>)

\* LabelBox.select
LabelBox_select(m, b, order) ==
    IF isManual(m.boxes[b])
    THEN Return([m EXCEPT !.boxes[b].selected = TRUE], <<>>)
    ELSE LabelBox_expand(m, b, order,
            Context_lens(m.ctxs[m.boxes[b].context], fresnelGraph,
                         instanceGraph))

\* ValueBox.select
ValueBox_select(m, b) ==
    IF IsLiteral(m.boxes[b].node)
    THEN Return([m EXCEPT !.boxes[b].selected = TRUE], <<>>)
    ELSE Return([ResourceBox(Context_clone(m, m.boxes[b].context, NoChanges),
                             b, m.boxes[b].node)
                    EXCEPT !.boxes[b].content = Len(m.boxes) + 1,
                           !.boxes[b].selected = TRUE],
                <<Call("ResourceBox.select", Len(m.boxes) + 1)>>)

-----------------------------------------------------------------------------
(* Format, Style and FormatHook.  A format node of the rule graph is a      *)
(* record of its triples: besides the selectors, label and value (None when *)
(* absent), resourceStyle, propertyStyle, labelStyle, valueStyle (the       *)
(* objects, in order) and resourceFormat, propertyFormat, labelFormat,      *)
(* valueFormat (the hook node as a record of its content triples, NoHook    *)
(* when absent).                                                            *)

\* No fresnel:...Format triple: nodeProp returns None
NoHook == [node |-> None]

\* fresnel:none and fresnel:show as objects of fresnel:label
FresnelNone == "fresnel:none"
FresnelShow == "fresnel:show"

\* Style(styleNodes): [raised, style]
Style(styleNodes) ==
    IF \A i \in 1..Len(styleNodes) : IsLiteral(styleNodes[i])
    THEN [raised |-> None, style |-> styleNodes]
    ELSE [raised |-> "FresnelException", style |-> NoStyle]

\* Box._apply_format_hook(hook)
apply_format_hook(box, hook) ==
    IF hook.node = None THEN box
    ELSE [box EXCEPT !.contentFirst = hook.contentFirst,
                     !.contentBefore = hook.contentBefore,
                     !.contentAfter = hook.contentAfter,
                     !.contentLast = hook.contentLast,
                     !.contentNoValue = hook.contentNoValue]

-----------------------------------------------------------------------------
(* ContainerBox.portray as a machine: the portray calls still to run are    *)
(* on the stack, a call runs up to the calls it makes.  LabelBox.portray    *)
(* and ValueBox.portray are called by the PropertyBox that is their parent, *)
(* with its format.                                                         *)

\* self.style = ...; self._apply_format_hook(...), the Style being built first
ApplyFormat(m, b, style, hook) ==
    IF style.raised # None THEN Raise(m, style.raised, b)
    ELSE [m EXCEPT !.boxes[b] =
            apply_format_hook([@ EXCEPT !.style = style.style], hook)]

\* The rest of a portray: the calls it makes, unless an exception left it
Portrayed(m, calls) ==
    IF m.status.phase = "raised" THEN m ELSE Return(m, calls)

\* ContainerBox.portray
ContainerBox_portray(m, b) ==
    Return([m EXCEPT !.boxes[b].portrayed = TRUE],
           Calls("ResourceBox.portray", m.boxes[b].resources))

\* Lines 874-877: the label of the box is not among the boxes portrayed
ResourceBox_portray_fmt(m, b, found) ==
    IF found.raised THEN Raise(m, "FresnelException", b)
    ELSE Portrayed(
            IF found.result = None
            THEN [m EXCEPT !.boxes[b].fmt = None, !.boxes[b].portrayed = TRUE]
            ELSE ApplyFormat([m EXCEPT !.boxes[b].fmt = found.result,
                                       !.boxes[b].portrayed = TRUE],
                             b,
                             Style(NodeRec(fresnelGraph, found.result).resourceStyle),
                             NodeRec(fresnelGraph, found.result).resourceFormat),
            Calls("PropertyBox.portray", m.boxes[b].properties))

\* ResourceBox.portray
ResourceBox_portray(m, b) ==
    ResourceBox_portray_fmt(m, b,
        Context_fmt(m.ctxs[m.boxes[b].context], fresnelGraph, instanceGraph,
                    FALSE))

\* Lines 971-972
PropertyBox_portray_children(m, b) ==
    Portrayed(m,
        (IF m.status.phase # "raised" /\ m.boxes[b].label # NoBox
         THEN <<Call("LabelBox.portray", m.boxes[b].label)>> ELSE <<>>)
        \o Calls("ValueBox.portray", m.boxes[b].values))

\* Lines 965-968: the label the format asks for
PropertyBox_portray_label(m, b, label) ==
    IF m.status.phase = "raised" THEN m
    ELSE IF label = FresnelNone THEN [m EXCEPT !.boxes[b].label = NoBox]
    ELSE IF label # None /\ IsLiteral(label)
    THEN [LabelBox(Context_clone(m, m.boxes[b].context, [label |-> TRUE]),
                   b, label)
            EXCEPT !.boxes[b].label = Len(m.boxes) + 1]
    ELSE m

\* Lines 962-972, self.fmt being fmt
PropertyBox_portray_fmt(m, b, fmt) ==
    IF fmt = None
    THEN PropertyBox_portray_children(
            [m EXCEPT !.boxes[b].fmt = None, !.boxes[b].portrayed = TRUE], b)
    ELSE PropertyBox_portray_children(
            PropertyBox_portray_label(
                ApplyFormat([m EXCEPT !.boxes[b].fmt = fmt,
                                      !.boxes[b].portrayed = TRUE],
                            b,
                            Style(NodeRec(fresnelGraph, fmt).propertyStyle),
                            NodeRec(fresnelGraph, fmt).propertyFormat),
                b, NodeRec(fresnelGraph, fmt).label),
            b)

\* Lines 960-961
PropertyBox_portray_use(m, b, fmt) ==
    PropertyBox_portray_fmt(m, b,
        IF m.boxes[b].propertyDescription.useFmt # None
        THEN m.boxes[b].propertyDescription.useFmt ELSE fmt)

\* Context.propertyfmt(propertyNode) on the clone c.ctx, and the rest of
\* PropertyBox.portray
PropertyBox_portray_found(c, b, found) ==
    IF found.raised THEN Raise(c.h, "FresnelException", b)
    ELSE PropertyBox_portray_use(c.h, b, found.result)

PropertyBox_portray_propertyfmt(c, b) ==
    PropertyBox_portray_found(c, b,
        Context_fmt(c.h.ctxs[c.ctx], fresnelGraph, instanceGraph, TRUE))

\* PropertyBox.portray
PropertyBox_portray(m, b) ==
    IF m.boxes[b].referenceProperty # None
    THEN PropertyBox_portray_propertyfmt(
            Context_clone(m, m.boxes[b].context,
                          [baseNode |-> m.boxes[b].referenceProperty]), b)
    ELSE PropertyBox_portray_use(m, b, m.boxes[b].fmt)

\* Lines 1024-1027 and 1076-1079: the format of the caller, and the style
\* and hook it has for the box
Box_portray_fmt(m, b, fmt, part) ==
    IF fmt = None
    THEN [m EXCEPT !.boxes[b].fmt = None, !.boxes[b].portrayed = TRUE]
    ELSE ApplyFormat([m EXCEPT !.boxes[b].fmt = fmt,
                               !.boxes[b].portrayed = TRUE],
                     b,
                     Style(IF part = "label"
                           THEN NodeRec(fresnelGraph, fmt).labelStyle
                           ELSE NodeRec(fresnelGraph, fmt).valueStyle),
                     IF part = "label"
                     THEN NodeRec(fresnelGraph, fmt).labelFormat
                     ELSE NodeRec(fresnelGraph, fmt).valueFormat)

\* LabelBox.portray(fmt)
LabelBox_portray(m, b) ==
    Portrayed(Box_portray_fmt(m, b, m.boxes[m.boxes[b].parent].fmt, "label"),
              Calls("PropertyBox.portray", m.boxes[b].properties))

\* ValueBox.portray(fmt)
ValueBox_portray(m, b) ==
    Portrayed(Box_portray_fmt(m, b, m.boxes[m.boxes[b].parent].fmt, "value"),
              IF m.boxes[b].content # NoBox
              THEN <<Call("ResourceBox.portray", m.boxes[b].content)>>
              ELSE <<>>)

-----------------------------------------------------------------------------
(* transform.  An element of the result is a record of its tag, its         *)
(* attributes (the set of <<name, value>>) and its children in order; a     *)
(* string among the children is a record with the tag "#text".  A transform *)
(* gives [raised, at, xml]: the exception that left it and the box it came  *)
(* from, or the elements built.                                             *)

Element(tag, attrs, children) ==
    [tag |-> tag, attrs |-> attrs, children |-> children, text |-> ""]

Text(string) ==
    [tag |-> "#text", attrs |-> {}, children |-> <<>>, text |-> string]

\* The sempfres values of fresnel:value, and rdf:XMLLiteral
Parsed == "sempfres:parsed"
ParsedForcefullyAsXML == "sempfres:parsedForcefullyAsXML"
XMLLiteral == "rdf:XMLLiteral"

\* " ".join(l)
RECURSIVE Join(_)
Join(l) ==
    IF l = <<>> THEN ""
    ELSE IF Len(l) = 1 THEN l[1]
    ELSE l[1] \o " " \o Join(Tail(l))

\* Python truth value of a node or None
Truthy(v) == v # None /\ v # ""

\* Style.cls
Style_cls(style) ==
    LET IsClass(c) == datatype(c) = "styleClass"
    IN  Join(SelectSeq(style, IsClass))

\* Style.style: [raised, result]
Style_style(style) ==
    LET IsInstructions(c) == datatype(c) = "stylingInstructions"
        styles == SelectSeq(style, IsInstructions)
    IN  IF Len(styles) > 1
        THEN [raised |-> "FresnelException", result |-> ""]
        ELSE [raised |-> None,
              result |-> IF styles # <<>> THEN styles[1] ELSE ""]

\* Style.attrs: [raised, attrs]
Style_attrs(style) ==
    IF Style_style(style).raised # None
    THEN [raised |-> Style_style(style).raised, attrs |-> {}]
    ELSE [raised |-> None,
          attrs |-> {a \in {<<"class", Style_cls(style)>>,
                            <<"style", Style_style(style).result>>} :
                        a[2] # ""}]

\* E(k, str(getattr(self, k))) for the slots of keys that are true
ContentElements(box, keys) ==
    LET Set(k) == Truthy(box[k])
        El(k) == Element(k, {}, <<Text(box[k])>>)
    IN  Map(SelectSeq(keys, Set), El)

\* Box._transform_format: [raised, attrs, before, after].  Line 783 appends
\* to content_after, a name the method does not define.
transform_format(box) ==
    IF ContentElements(box, <<"contentAfter", "contentLast">>) # <<>>
    THEN [raised |-> "NameError", attrs |-> {}, before |-> <<>>,
          after |-> <<>>]
    ELSE IF box.style # NoStyle /\ Style_attrs(box.style).raised # None
    THEN [raised |-> Style_attrs(box.style).raised, attrs |-> {},
          before |-> <<>>, after |-> <<>>]
    ELSE [raised |-> None,
          attrs |-> (IF box.style # NoStyle THEN Style_attrs(box.style).attrs
                     ELSE {})
                    \cup (IF box.fmt # None THEN {<<"fmt", box.fmt>>} ELSE {}),
          before |-> ContentElements(box, <<"contentFirst", "contentBefore",
                                            "contentNoValue">>),
          after |-> <<>>]

Transformed(xml) == [raised |-> None, at |-> NoBox, xml |-> xml]

Failed(error, b) == [raised |-> error, at |-> b, xml |-> <<>>]

\* E.tag(*(f_before + children + f_after), **attributes), f being computed
\* before the children are
Build(b, tag, attributes, f, inner) ==
    IF f.raised # None THEN Failed(f.raised, b)
    ELSE IF inner.raised # None THEN inner
    ELSE Transformed(<<Element(tag, attributes \cup f.attrs,
                               f.before \o inner.xml \o f.after)>>)

\* The child of a ValueBox for a literal (lines 1097-1105)
LiteralContent(box) ==
    IF /\ box.fmt # None
       /\ \/ NodeRec(fresnelGraph, box.fmt).value = ParsedForcefullyAsXML
          \/ /\ NodeRec(fresnelGraph, box.fmt).value = Parsed
             /\ datatype(box.node) = XMLLiteral
    THEN Element("xmlliteral", {}, <<Text(box.node)>>)
    ELSE Element("literal", {}, <<Text(box.node)>>)

\* litinfo (lines 1094-1096)
LiteralInfo(v) ==
    {<<"type", "literal">>}
    \cup (IF Truthy(language(v)) THEN {<<"lang", language(v)>>} ELSE {})
    \cup (IF Truthy(datatype(v)) THEN {<<"datatype", datatype(v)>>} ELSE {})

\* self.label.transform() if self.label else ""
NoLabel == Transformed(<<Text("")>>)

RECURSIVE transform(_, _), transform_all(_, _, _)

\* [x.transform() for x in ids], after the children acc
transform_all(h, ids, acc) ==
    IF ids = <<>> \/ acc.raised # None THEN acc
    ELSE transform_all(h, Tail(ids),
            IF transform(h, Head(ids)).raised # None
            THEN transform(h, Head(ids))
            ELSE Transformed(acc.xml \o transform(h, Head(ids)).xml))

\* The transform method of the box b
transform(h, b) ==
    CASE h.boxes[b].kind = "ContainerBox" ->
            Build(b, "fresnelresult", {}, transform_format(h.boxes[b]),
                  IF transform_format(h.boxes[b]).raised # None THEN NoLabel
                  ELSE transform_all(h, h.boxes[b].resources,
                                     Transformed(<<>>)))
      [] h.boxes[b].kind = "ResourceBox" ->
            Build(b, "resource",
                  {<<"uri", h.boxes[b].node>>}
                  \cup (IF h.boxes[b].lens # None
                        THEN {<<"lens", h.boxes[b].lens>>} ELSE {}),
                  transform_format(h.boxes[b]),
                  IF transform_format(h.boxes[b]).raised # None THEN NoLabel
                  ELSE transform_all(h, h.boxes[b].properties,
                          IF h.boxes[b].label # NoBox
                          THEN transform(h, h.boxes[b].label) ELSE NoLabel))
      [] h.boxes[b].kind = "PropertyBox" ->
            Build(b, "property",
                  IF Truthy(h.boxes[b].referenceProperty)
                  THEN {<<"uri", h.boxes[b].referenceProperty>>} ELSE {},
                  transform_format(h.boxes[b]),
                  IF transform_format(h.boxes[b]).raised # None THEN NoLabel
                  ELSE transform_all(h, h.boxes[b].values,
                          IF h.boxes[b].label # NoBox
                          THEN transform(h, h.boxes[b].label) ELSE NoLabel))
      [] h.boxes[b].kind = "LabelBox" ->
            IF isManual(h.boxes[b])
            THEN Build(b, "label", {}, transform_format(h.boxes[b]),
                       Transformed(<<Text(h.boxes[b].node)>>))
            ELSE Build(b, "label",
                       IF h.boxes[b].lens # None
                       THEN {<<"lens", h.boxes[b].lens>>} ELSE {},
                       transform_format(h.boxes[b]),
                       IF transform_format(h.boxes[b]).raised # None
                       THEN NoLabel
                       ELSE transform_all(h, h.boxes[b].properties,
                                          Transformed(<<>>)))
      [] h.boxes[b].kind = "ValueBox" ->
            IF h.boxes[b].content # NoBox
            THEN Build(b, "value", {<<"type", "resource">>},
                       transform_format(h.boxes[b]),
                       IF transform_format(h.boxes[b]).raised # None
                       THEN NoLabel
                       ELSE transform(h, h.boxes[b].content))
            ELSE IF transform_format(h.boxes[b]).raised # None
            THEN Failed(transform_format(h.boxes[b]).raised, b)
            ELSE IF ~IsLiteral(h.boxes[b].node)
            THEN Failed("AttributeError", b)
            ELSE Build(b, "value", LiteralInfo(h.boxes[b].node),
                       transform_format(h.boxes[b]),
                       Transformed(<<LiteralContent(h.boxes[b])>>))

-----------------------------------------------------------------------------
(* Running the calls *)

\* The next call runs, unless the calls are nested too deeply
Step(m, call, order) ==
    IF m.boxes[call.box].level > RecursionLimit
    THEN Raise(m, "RecursionError", call.box)
    ELSE CASE call.op = "ContainerBox.select" -> ContainerBox_select(m, call)
           [] call.op = "ResourceBox.select" ->
                ResourceBox_select(m, call.box, order)
           [] call.op = "ResourceBox.label" ->
                ResourceBox_select_label(m, call.box)
           [] call.op = "PropertyBox.select" -> PropertyBox_select(m, call.box)
           [] call.op = "PropertyBox.label" ->
                PropertyBox_select_label(m, call.box)
           [] call.op = "LabelBox.select" ->
                LabelBox_select(m, call.box, order)
           [] call.op = "ValueBox.select" -> ValueBox_select(m, call.box)
           [] call.op = "ContainerBox.portray" ->
                ContainerBox_portray(m, call.box)
           [] call.op = "ResourceBox.portray" ->
                ResourceBox_portray(m, call.box)
           [] call.op = "PropertyBox.portray" ->
                PropertyBox_portray(m, call.box)
           [] call.op = "LabelBox.portray" -> LabelBox_portray(m, call.box)
           [] call.op = "ValueBox.portray" -> ValueBox_portray(m, call.box)

\* The calls run until none is left
RECURSIVE Run(_, _)
Run(m, order) ==
    IF m.stack = <<>> THEN m ELSE Run(Step(m, m.stack[1], order), order)

\* ContainerBox.select() on the objects h, the sets of predicates iterating
\* in the order given
ContainerBox_select_all(h, order) ==
    Run([ctxs |-> h.ctxs, boxes |-> h.boxes,
         stack |-> <<[op |-> "ContainerBox.select", box |-> 1, i |-> 1]>>,
         status |-> Status("selected", None, NoBox)], order)

\* ContainerBox.portray() on the objects h
ContainerBox_portray_all(h) ==
    Run([ctxs |-> h.ctxs, boxes |-> h.boxes,
         stack |-> <<Call("ContainerBox.portray", 1)>>,
         status |-> Status("portrayed", None, NoBox)], <<>>)

-----------------------------------------------------------------------------
(* The calls on a ContainerBox.  plan.roots are the nodes the caller may    *)
(* append, plan.appends and plan.selects the number of append and select    *)
(* calls it may still make, plan.calls the calls it has made; portray       *)
(* follows a select that returned and transform follows portray.            *)

\* The caller before its first call
Plan(roots, appends, selects) ==
    [roots |-> roots, appends |-> appends, selects |-> selects,
     calls |-> <<>>]

\* The caller after a call
Called(call, appends, selects) ==
    [plan EXCEPT !.calls = Append(@, call), !.appends = @ - appends,
                 !.selects = @ - selects]

\* ContainerBox.append(node)
Append_node ==
    \E node \in plan.roots :
        /\ status.phase \in {"created", "selected"}
        /\ plan.appends > 0
        /\ boxes' = [boxes EXCEPT ![1].resourceNodes = Append(@, node)]
        /\ plan' = Called("append", 1, 0)
        /\ UNCHANGED <<instanceGraph, fresnelGraph, qa, qb, cmp, cx, ret,
                       ctxs, status, result>>

\* ContainerBox.select(): status is "selected" when it returned and
\* "raised" when an exception left it
Select ==
    /\ status.phase \in {"created", "selected"}
    /\ plan.selects > 0
    /\ \E order \in SetOrders(instanceGraph) :
        \E m \in {ContainerBox_select_all([ctxs |-> ctxs, boxes |-> boxes],
                                          order)} :
            /\ ctxs' = m.ctxs
            /\ boxes' = m.boxes
            /\ status' = m.status
    /\ plan' = Called("select", 0, 1)
    /\ UNCHANGED <<instanceGraph, fresnelGraph, qa, qb, cmp, cx, ret, result>>

\* ContainerBox.portray()
Portray ==
    /\ status.phase = "selected"
    /\ \E m \in {ContainerBox_portray_all([ctxs |-> ctxs, boxes |-> boxes])} :
            /\ ctxs' = m.ctxs
            /\ boxes' = m.boxes
            /\ status' = m.status
    /\ plan' = Called("portray", 0, 0)
    /\ UNCHANGED <<instanceGraph, fresnelGraph, qa, qb, cmp, cx, ret, result>>

\* ContainerBox.transform(): the boxes are read, none is assigned to
Transform ==
    /\ status.phase = "portrayed"
    /\ \E r \in {transform([ctxs |-> ctxs, boxes |-> boxes], 1)} :
            /\ result' = r
            /\ status' = IF r.raised = None
                         THEN Status("transformed", None, NoBox)
                         ELSE Status("raised", r.raised, r.at)
    /\ plan' = Called("transform", 0, 0)
    /\ UNCHANGED <<instanceGraph, fresnelGraph, qa, qb, cmp, cx, ret,
                   ctxs, boxes>>

-----------------------------------------------------------------------------
(* The graphs and the contexts a rendering starts from *)

\* Nodes a lens is looked up for
TreeNodes == Resources \cup Predicates

\* The p arcs: none, the cycle r1 -> r2 -> r1, the loop r1 -> r1
ResourceArcs ==
    {<<>>,
     <<<<"r1", "p", "r2">>, <<"r2", "p", "r1">>>>,
     <<<<"r1", "p", "r1">>>>}

\* The q arcs of r1: none, literals in two preferred languages with an
\* untagged literal and a resource (r3, which has no type and no arcs), one literal in a language no list
\* prefers with a resource, one literal in a language only the default
\* list prefers
LiteralArcs ==
    {<<>>,
     <<<<"r1", "q", "hello@en">>, <<"r1", "q", "hallo@de">>,
       <<"r1", "q", "plain">>, <<"r1", "q", "r3">>>>,
     <<<<"r1", "q", "salut@fr">>, <<"r1", "q", "r3">>>>,
     <<<<"r1", "q", "coi@jbo">>>>}

TreeGraphs ==
    {[sub |-> {}, ask |-> {}, select |-> <<>>,
      types |-> [n \in TreeNodes |-> IF n \in {"r1", "r2"} THEN {"A"} ELSE {}],
      arcs |-> ra \o la] : ra \in ResourceArcs, la \in LiteralArcs}

\* fresnel:depth values a description declares
DeclaredDepths == {NoDepth} \cup 0..MaxDeclaredDepth

\* A plain property as description
PlainDescriptions ==
    [node : Predicates, types : {{}}, property : {<<>>},
     mergeProperties : {NoCandidates}, alternateProperties : {NoCandidates},
     sublens : {<<>>}, depth : {NoDepth}, label : {None}, use : {<<>>}]

\* Nodes typed fresnel:PropertyDescription with fresnel:property
NormalDescriptions ==
    [node : {"d"}, types : {{"PropertyDescription"}},
     property : {<<"p">>, <<"p", "q">>},
     mergeProperties : {NoCandidates}, alternateProperties : {NoCandidates},
     sublens : {<<>>, <<"L">>}, depth : DeclaredDepths, label : {None},
     use : {<<>>}]

\* Nodes typed fresnel:PropertyDescription with a merge or alternate list
\* (a collection may name a property twice), and one with none of the three
ListDescriptions ==
    [node : {"d"}, types : {{"PropertyDescription"}}, property : {<<>>},
     mergeProperties : {<<"p", "q">>}, alternateProperties : {NoCandidates},
     sublens : {<<>>}, depth : {NoDepth}, label : {None, "Manual"},
     use : {<<>>}]
    \cup
    [node : {"d"}, types : {{"PropertyDescription"}}, property : {<<>>},
     mergeProperties : {NoCandidates},
     alternateProperties : {<<"p", "q">>, <<"p", "q", "p">>, NoCandidates},
     sublens : {<<>>}, depth : {NoDepth}, label : {None, "Manual"},
     use : {<<>>}]

Descriptions == PlainDescriptions \cup NormalDescriptions \cup ListDescriptions

\* The lens L for the class of the resources: with or without the label
\* purpose, showing no or one description, or declaring a hide list
TreeLenses ==
    [node : {"L"}, types : {{"Lens"}}, instanceDomain : {<<>>},
     classDomain : {<<"A">>}, propertyDomain : {<<>>},
     purpose : {{}, {"labelLens"}},
     showProperties : {<<>>} \cup {<<d>> : d \in Descriptions},
     hideProperties : {None}]
    \cup
    [node : {"L"}, types : {{"Lens"}}, instanceDomain : {<<>>},
     classDomain : {<<"A">>}, propertyDomain : {<<>>},
     purpose : {{}, {"labelLens"}},
     showProperties : {<<>>, <<[node |-> "p", types |-> {},
                                property |-> <<>>,
                                mergeProperties |-> NoCandidates,
                                alternateProperties |-> NoCandidates,
                                sublens |-> <<>>, depth |-> NoDepth,
                                label |-> None, use |-> <<>>]>>},
     hideProperties : {"hidden"}]

TreeRules == {<<>>} \cup {<<l>> : l \in TreeLenses}

\* Context.langs the caller gives
LangLists == {DefaultLangs, <<"de", "en">>}

Init ==
    /\ instanceGraph \in TreeGraphs
    /\ fresnelGraph \in TreeRules
    /\ \E depth \in 0..MaxDepth, langs \in LangLists :
          ctxs = <<Context([depth |-> depth, langs |-> langs])>>
    /\ boxes = <<ContainerBox(1)>>
    /\ status = Status("created", None, NoBox)
    /\ plan = Plan({"r1"}, MaxRoots, 1)
    /\ result = NoResult
    /\ cx = NoContext
    /\ ret = NoCall
    /\ qa = MatchQuality /\ qb = MatchQuality /\ cmp = NoCmp

Next == Append_node \/ Select \/ Portray \/ Transform

Spec == Init /\ [][Next]_vars

-----------------------------------------------------------------------------
(* SpecContainer: the calls on a ContainerBox with up to MaxContainerRoots  *)
(* nodes of r1, r2 and up to MaxSelects select calls, in any order, on empty *)
(* graphs and on a graph with a lens and a format for it                    *)

\* Graph() with no triple
EmptyGraph ==
    [sub |-> {}, ask |-> {}, select |-> <<>>,
     types |-> [n \in TreeNodes |-> {}], arcs |-> <<>>]

\* r1 and r2 of class A, r1 with a resource and two literals as values
ContainerGraphs ==
    {EmptyGraph,
     [sub |-> {}, ask |-> {}, select |-> <<>>,
      types |-> [n \in TreeNodes |-> IF n \in {"r1", "r2"} THEN {"A"} ELSE {}],
      arcs |-> <<<<"r1", "p", "r2">>, <<"r1", "p", "hello@en">>,
                 <<"r1", "q", "plain">>>>]}

\* The lens L for the class A, showing p and q
ContainerLenses ==
    [node : {"L"}, types : {{"Lens"}}, instanceDomain : {<<>>},
     classDomain : {<<"A">>}, propertyDomain : {<<>>},
     purpose : {{}, {"labelLens"}},
     showProperties : {<<d1, d2>> : d1 \in {d \in PlainDescriptions : d.node = "p"},
                                   d2 \in {d \in PlainDescriptions : d.node = "q"}},
     hideProperties : {None}]

\* A hook node with content before the box, and one with content after it
Hooks ==
    {[node |-> "h1", contentFirst |-> None, contentBefore |-> "[",
      contentAfter |-> None, contentLast |-> None, contentNoValue |-> "(none)"],
     [node |-> "h2", contentFirst |-> None, contentBefore |-> None,
      contentAfter |-> "]", contentLast |-> None, contentNoValue |-> None]}

\* The format F for the class A and the property p
ContainerFormats ==
    [node : {"F"}, types : {{"Format"}}, instanceDomain : {<<>>},
     classDomain : {<<"A">>}, propertyDomain : {<<"p">>}, purpose : {{}},
     label : {None, FresnelNone, "Manual"}, value : {None},
     resourceStyle : {<<"big", "bold", "color:red">>},
     propertyStyle : {<<>>}, labelStyle : {<<"bold">>},
     valueStyle : {<<>>},
     resourceFormat : {NoHook} \cup {h \in Hooks : h.node = "h1"},
     propertyFormat : {NoHook}, labelFormat : {NoHook},
     valueFormat : {NoHook} \cup {h \in Hooks : h.node = "h2"}]

ContainerRules ==
    {<<>>} \cup {<<l>> : l \in ContainerLenses}
    \cup {<<l, f>> : l \in ContainerLenses, f \in ContainerFormats}

InitContainer ==
    /\ instanceGraph \in ContainerGraphs
    /\ fresnelGraph \in ContainerRules
    /\ \E depth \in 0..MaxDepth :
          ctxs = <<Context([depth |-> depth])>>
    /\ boxes = <<ContainerBox(1)>>
    /\ status = Status("created", None, NoBox)
    /\ plan = Plan({"r1", "r2"}, MaxContainerRoots, MaxSelects)
    /\ result = NoResult
    /\ cx = NoContext
    /\ ret = NoCall
    /\ qa = MatchQuality /\ qb = MatchQuality /\ cmp = NoCmp

SpecContainer == InitContainer /\ [][Next]_vars

-----------------------------------------------------------------------------
(* SpecSublens: ContainerBox on a rule graph with several lenses, of which  *)
(* descriptions name some as sublenses                                      *)

\* r1 and r2 of class A on the cycle r1 -> r2 -> r1, r2 with or without a
\* literal
SublensGraphs ==
    {[sub |-> {}, ask |-> {}, select |-> <<>>,
      types |-> [n \in TreeNodes |-> IF n \in {"r1", "r2"} THEN {"A"} ELSE {}],
      arcs |-> <<<<"r1", "p", "r2">>, <<"r2", "p", "r1">>>> \o la] :
        la \in {<<>>, <<<<"r2", "q", "plain">>>>}}

\* A description of p typed fresnel:PropertyDescription with the sublenses
SublensDescription(sublens, depth) ==
    [node |-> "d", types |-> {"PropertyDescription"}, property |-> <<"p">>,
     mergeProperties |-> NoCandidates, alternateProperties |-> NoCandidates,
     sublens |-> sublens, depth |-> depth, label |-> None, use |-> <<>>]

\* A lens for a class, showing one description
SublensLens(node, class, purpose, show) ==
    [node |-> node, types |-> {"Lens"}, instanceDomain |-> <<>>,
     classDomain |-> class, propertyDomain |-> <<>>, purpose |-> purpose,
     showProperties |-> show, hideProperties |-> None]

\* The rule graphs: the default lens L for the class A, whose description
\* names no sublens, M, M and L, or N; the lens M for the class A, showing
\* p as it is or with the sublens L; the lens N for the class B, which no
\* resource has; the lens K without a domain, which matches nothing and
\* serves as fallback
SublensRules ==
    {<<SublensLens("L", <<"A">>, pl, <<SublensDescription(sl, dl)>>),
       SublensLens("M", <<"A">>, pm, <<dm>>),
       SublensLens("N", <<"B">>, {}, <<>>),
       SublensLens("K", <<>>, {}, <<>>)>> :
        pl \in {{"defaultLens"}, {"defaultLens", "labelLens"}},
        sl \in {<<>>, <<"M">>, <<"M", "L">>, <<"N">>},
        dl \in DeclaredDepths,
        pm \in {{}, {"labelLens"}},
        dm \in {d \in PlainDescriptions : d.node = "p"}
               \cup {SublensDescription(<<"L">>, NoDepth)}}

InitSublens ==
    /\ instanceGraph \in SublensGraphs
    /\ fresnelGraph \in SublensRules
    /\ \E depth \in 0..MaxDepth, fallback \in {None, "K"} :
          ctxs = <<Context([depth |-> depth, fallbackLens |-> fallback])>>
    /\ boxes = <<ContainerBox(1)>>
    /\ status = Status("created", None, NoBox)
    /\ plan = Plan({"r1"}, MaxRoots, 1)
    /\ result = NoResult
    /\ cx = NoContext
    /\ ret = NoCall
    /\ qa = MatchQuality /\ qb = MatchQuality /\ cmp = NoCmp

SpecSublens == InitSublens /\ [][Next]_vars

-----------------------------------------------------------------------------
(* SpecLabel: ContainerBox on a graph where the property p is itself a       *)
(* resource of class A with a value of q, so that the LabelBox of a          *)
(* PropertyBox of p finds a label lens with PropertyBoxes of its own, and    *)
(* on rule graphs whose descriptions name the format F with fresnel:use     *)

\* r1 of class A with a resource or a literal as value of p; p of class A
\* or of none, with or without a value of q
LabelGraphs ==
    {[sub |-> {}, ask |-> {}, select |-> <<>>,
      types |-> [n \in TreeNodes |-> IF n \in {"r1"} \cup typed THEN {"A"} ELSE {}],
      arcs |-> <<<<"r1", "p", v>>>> \o la] :
        typed \in {{}, {"p"}}, v \in {"r2", "hello@en"},
        la \in {<<>>, <<<<"p", "q", "plain">>>>}}

\* A description of a property typed fresnel:PropertyDescription with
\* fresnel:use
UseDescription(property, use) ==
    [node |-> "d", types |-> {"PropertyDescription"},
     property |-> <<property>>,
     mergeProperties |-> NoCandidates, alternateProperties |-> NoCandidates,
     sublens |-> <<>>, depth |-> NoDepth, label |-> None, use |-> use]

\* The descriptions of a property: plain, or with fresnel:use F
LabelDescriptions(property) ==
    {d \in PlainDescriptions : d.node = property}
    \cup {UseDescription(property, <<"F">>)}

\* The lens L for the class A, showing p and q, and the format F, for the
\* property p or for no domain, with its fresnel:label
LabelRules ==
    {<<SublensLens("L", <<"A">>, pl, <<d1, d2>>),
       [node |-> "F", types |-> {"Format"}, instanceDomain |-> <<>>,
        classDomain |-> <<>>, propertyDomain |-> pd, purpose |-> {},
        label |-> label, value |-> None,
        resourceStyle |-> <<>>, propertyStyle |-> <<>>,
        labelStyle |-> <<"bold">>, valueStyle |-> <<>>,
        resourceFormat |-> NoHook, propertyFormat |-> NoHook,
        labelFormat |-> NoHook, valueFormat |-> NoHook]>> :
        pl \in {{}, {"labelLens"}},
        d1 \in LabelDescriptions("p"), d2 \in LabelDescriptions("q"),
        pd \in {<<>>, <<"p">>},
        label \in {None, FresnelNone, "Manual"}}

InitLabel ==
    /\ instanceGraph \in LabelGraphs
    /\ fresnelGraph \in LabelRules
    /\ \E depth \in 0..MaxDepth :
          ctxs = <<Context([depth |-> depth])>>
    /\ boxes = <<ContainerBox(1)>>
    /\ status = Status("created", None, NoBox)
    /\ plan = Plan({"r1"}, MaxRoots, 1)
    /\ result = NoResult
    /\ cx = NoContext
    /\ ret = NoCall
    /\ qa = MatchQuality /\ qb = MatchQuality /\ cmp = NoCmp

SpecLabel == InitLabel /\ [][Next]_vars

-----------------------------------------------------------------------------
(* Claims on the box tree, checked under Spec *)

BoxIds == 1..Len(boxes)

\* The boxes of a class
BoxesOf(kind) == {b \in BoxIds : boxes[b].kind = kind}

\* The context of a box
ContextOf(b) == ctxs[boxes[b].context]

\* ContainerBox.select was called and has ended
Ended == status.phase \in {"selected", "raised"}

\* The PropertyBoxes whose select has built their ValueBoxes
SelectedProperties == {b \in BoxesOf("PropertyBox") : boxes[b].selected}

\* The value nodes the ValueBoxes of a PropertyBox stand for
ShownValues(b) ==
    [i \in 1..Len(boxes[b].values) |-> boxes[boxes[b].values[i]].node]

\* A literal among the values given to the PropertyBox has a language of
\* the context's preference list
PreferredPresent(b) ==
    \E i \in 1..Len(boxes[b].given) :
        /\ IsLiteral(boxes[b].given[i])
        /\ In(language(boxes[b].given[i]), ContextOf(b).langs)

\* The first language of the preference list that a literal among the
\* values given has
FirstPreferred(b) ==
    LET Present(l) ==
            \E i \in 1..Len(boxes[b].given) :
                IsLiteral(boxes[b].given[i]) /\ language(boxes[b].given[i]) = l
    IN  SelectSeq(ContextOf(b).langs, Present)[1]

\* C6: when no language of the literal values of a PropertyBox is in the
\* preference list of its context, every value the box was given, literal
\* of any language and non-literal alike, has its ValueBox, in order.
C6_NoPreferenceKeepsAll ==
    \A b \in SelectedProperties :
        ~PreferredPresent(b) => ShownValues(b) = boxes[b].given

\* C7: when a language of the preference list is present, the language
\* chosen is the first such language of the list, and the ValueBoxes are
\* those of the values given without the literals tagged with another
\* language: literals of the chosen language, untagged literals and
\* non-literals all stay.
C7_DropsOnlyOtherLanguages ==
    \A b \in SelectedProperties :
        PreferredPresent(b)
        => LET Stays(v) == \/ ~IsLiteral(v)
                           \/ language(v) = None
                           \/ language(v) = FirstPreferred(b)
           IN  ShownValues(b) = SelectSeq(boxes[b].given, Stays)

\* The depth C8 states for the value contexts of a PropertyBox
StatedChildDepth(d, descr) ==
    IF descr.depth # NoDepth /\ descr.depth < d THEN descr.depth
    ELSE IF descr.sublenses # <<>> THEN d - 1
    ELSE 0

\* C8: the context of every ValueBox of a PropertyBox has the depth e when
\* the description declares a depth e (0 included) below the depth d of the
\* PropertyBox's context, else d - 1 when sublenses are declared, else 0.
C8_ChildDepthRule ==
    \A b \in SelectedProperties :
        \A i \in 1..Len(boxes[b].values) :
            ContextOf(boxes[b].values[i]).depth =
                StatedChildDepth(ContextOf(b).depth,
                                 boxes[b].propertyDescription)

\* The box has a LabelBox above it
RECURSIVE InLabel(_)
InLabel(b) ==
    /\ boxes[b].parent # NoBox
    /\ \/ boxes[boxes[b].parent].kind = "LabelBox"
       \/ InLabel(boxes[b].parent)

\* The ResourceBoxes that are the content of a ValueBox of a PropertyBox of
\* a ResourceBox, with that outer ResourceBox
NestedResources ==
    {<<boxes[boxes[boxes[r].parent].parent].parent, r>> :
        r \in {x \in BoxesOf("ResourceBox") :
                /\ boxes[boxes[x].parent].kind = "ValueBox"
                /\ boxes[boxes[boxes[boxes[x].parent].parent].parent].kind
                     = "ResourceBox"}}

\* C9: ContainerBox.select ends, for every graph with or without cycles and
\* every rule graph, without exhausting the nesting of calls: a ResourceBox
\* nested in a ResourceBox through a PropertyBox and a ValueBox has a
\* strictly smaller depth, a ResourceBox whose depth is not positive has no
\* PropertyBox, no LabelBox is below a LabelBox, and when select returned,
\* the select of every box has run.
C9_SelectTerminates ==
    /\ status.phase \in {"created", "selected", "portrayed", "transformed",
                         "raised"}
    /\ status.phase = "raised" => status.error # "RecursionError"
    /\ \A pair \in NestedResources :
            ContextOf(pair[2]).depth < ContextOf(pair[1]).depth
    /\ \A r \in BoxesOf("ResourceBox") :
            ContextOf(r).depth <= 0 => boxes[r].properties = <<>>
    /\ \A l \in BoxesOf("LabelBox") : ~InLabel(l)
    /\ \A b \in BoxIds : boxes[b].level <= RecursionLimit
    /\ status.phase = "selected" => \A b \in BoxIds : boxes[b].selected

\* C9 witness: on a graph with a cycle, select returned with r1 rendered
\* again inside its own rendering, and with a label that shows properties
C9_Witness ==
    /\ status.phase = "selected"
    /\ \E pair \in NestedResources :
          /\ boxes[pair[2]].node = "r1"
          /\ \E outer \in NestedResources :
                outer[2] = pair[1] /\ boxes[outer[1]].node = "r1"
    /\ \E l \in BoxesOf("LabelBox") : boxes[l].properties # <<>>

\* The boxes whose select found a lens that declares fresnel:hideProperties
HidingBoxes ==
    {b \in BoxIds :
        /\ boxes[b].lens # None
        /\ NodeRec(fresnelGraph, boxes[b].lens).hideProperties # None}

\* C10: building the PropertyBoxList for a lens with a fresnel:hideProperties
\* list raises FresnelException and nothing else, and makes no PropertyBox.
C10_HideRaisesFresnelException ==
    \A b \in HidingBoxes :
        /\ status = Status("raised", "FresnelException", b)
        /\ boxes[b].properties = <<>>
        /\ BoxesOf("PropertyBox") = {}

-----------------------------------------------------------------------------
(* Claims on PropertyBoxList, checked under Spec *)

\* The boxes whose select built a PropertyBoxList from a lens
ListedBoxes == {b \in BoxIds : boxes[b].selected /\ boxes[b].lens # None}

\* The descriptions the lens of a box shows
ShownDescriptions(b) == Lens_showProperties(fresnelGraph, boxes[b].lens)

\* The arcs the description resolves to for the node of the box
ArcsFor(b, descr) == resolveDescription(instanceGraph, boxes[b].node, descr).arcs

\* The PropertyBoxes of a box that were made for a description
PropertyBoxesFor(b, descr) ==
    LET For(pb) == boxes[pb].propertyDescription = descr
    IN  SelectSeq(boxes[b].properties, For)

\* The longest prefix of arcs whose arcs all have the predicate p
RECURSIVE LeadingRun(_, _)
LeadingRun(arcs, p) ==
    IF arcs = <<>> \/ arcs[1][1] # p THEN <<>>
    ELSE <<arcs[1]>> \o LeadingRun(Tail(arcs), p)

\* C11: for a description in alternate mode whose arc list is not empty,
\* the PropertyBoxList holds exactly one PropertyBox, for the predicate of
\* the first arc, and its values are those of the longest leading run of
\* arcs with that predicate: an arc with that predicate after an arc with
\* another predicate is left out.
C11_AlternateLeadingRun ==
    \A b \in ListedBoxes :
        \A i \in 1..Len(ShownDescriptions(b)) :
            (/\ ShownDescriptions(b)[i].alt
             /\ ArcsFor(b, ShownDescriptions(b)[i]) # <<>>)
            => /\ Len(PropertyBoxesFor(b, ShownDescriptions(b)[i])) = 1
               /\ \A pb \in {PropertyBoxesFor(b, ShownDescriptions(b)[i])[1]} :
                    /\ boxes[pb].referenceProperty
                         = ArcsFor(b, ShownDescriptions(b)[i])[1][1]
                    /\ boxes[pb].given
                         = ArcValues(LeadingRun(
                              ArcsFor(b, ShownDescriptions(b)[i]),
                              ArcsFor(b, ShownDescriptions(b)[i])[1][1]))

\* The predicates of a list of arcs
ArcPredicates(arcs) == {arcs[i][1] : i \in 1..Len(arcs)}

\* The members of a list
Members(l) == {l[i] : i \in 1..Len(l)}

\* C12: for a description in normal mode the PropertyBoxList holds exactly
\* one PropertyBox per distinct predicate of the resolved arcs, each given
\* exactly the values of the arcs with its predicate, in their order; when
\* the arc list is empty, in any mode, it holds no PropertyBox for the
\* description.
C12_NormalGroupingPartitions ==
    \A b \in ListedBoxes :
        \A i \in 1..Len(ShownDescriptions(b)) :
            \A made \in {PropertyBoxesFor(b, ShownDescriptions(b)[i])} :
                \A arcs \in {ArcsFor(b, ShownDescriptions(b)[i])} :
                    /\ arcs = <<>> => made = <<>>
                    /\ (~ShownDescriptions(b)[i].alt /\ ~ShownDescriptions(b)[i].merge)
                       => /\ Len(made) = Cardinality(ArcPredicates(arcs))
                          /\ {boxes[pb].referenceProperty : pb \in Members(made)}
                                = ArcPredicates(arcs)
                          /\ \A pb \in Members(made) :
                                boxes[pb].given
                                  = ArcValues(ArcsOf(arcs, boxes[pb].referenceProperty))

\* C12 witness: select returned and a description in normal mode gave two
\* PropertyBoxes, one of them with more than one value
C12_Witness ==
    /\ status.phase = "selected"
    /\ \E b \in ListedBoxes :
          /\ ShownDescriptions(b) # <<>>
          /\ ~ShownDescriptions(b)[1].alt /\ ~ShownDescriptions(b)[1].merge
          /\ Len(PropertyBoxesFor(b, ShownDescriptions(b)[1])) = 2
          /\ \E pb \in Members(boxes[b].properties) : Len(boxes[pb].given) > 1

\* n times the call
RECURSIVE Times(_, _)
Times(call, n) == IF n = 0 THEN <<>> ELSE <<call>> \o Times(call, n - 1)

\* The calls of one rendering: the roots are appended, then select,
\* portray and transform are called once each
Rendering(n) == Times("append", n) \o <<"select", "portray", "transform">>

\* The caller is within one rendering
Renders ==
    \E n \in 0..Len(plan.calls) :
        \E k \in 0..3 : plan.calls = SubSeq(Rendering(n), 1, n + k)

\* No rule, no statement and no fallback lens
AllEmpty ==
    /\ fresnelGraph = <<>>
    /\ instanceGraph = EmptyGraph
    /\ ctxs[1].fallbackLens = None /\ ctxs[1].fallbackLabelLens = None

\* The resource element of a root no lens and no format was found for
BareResource(node) ==
    Element("resource", {<<"uri", node>>}, <<Element("label", {}, <<>>)>>)

\* C13: with an empty rule graph, an empty instance graph and no fallback
\* lens, appending any list of roots and calling select, portray and
\* transform raises nothing and yields a fresnelresult element with one
\* resource element per root, in the order of the roots, each with the uri
\* attribute only and one empty label element as its only child.
C13_EmptyGraphsRender ==
    (AllEmpty /\ Renders)
    => /\ status.phase # "raised"
       /\ status.phase = "transformed"
          => result = Transformed(<<Element("fresnelresult", {},
                        [i \in 1..Len(boxes[1].resourceNodes) |->
                            BareResource(boxes[1].resourceNodes[i])])>>)

\* C13 witness: the roots r2 and r1, in this order, were rendered on
\* empty graphs
C13_Witness ==
    /\ AllEmpty /\ Renders
    /\ status.phase = "transformed"
    /\ boxes[1].resourceNodes = <<"r2", "r1">>

\* C13 witness of the empty list of roots: the result is the empty
\* fresnelresult element
C13_WitnessNoRoots ==
    /\ AllEmpty /\ Renders
    /\ result = Transformed(<<Element("fresnelresult", {}, <<>>)>>)
    /\ plan.calls = Rendering(0)

\* The fields that clone is called with a change of, or that a constructor
\* or PropertyBox.select assigns on the clone, for a box of class kind made
\* by a box of class above
AssignedOnClone(kind, above) ==
    CASE kind = "ResourceBox" -> {"baseNode"}
      [] kind = "LabelBox" /\ above = "ResourceBox"
            -> {"lensCandidates", "label", "baseNode"}
      [] kind = "LabelBox" /\ above # "ResourceBox" -> {"label", "baseNode"}
      [] kind = "PropertyBox" /\ above = "ResourceBox" -> {"lensCandidates"}
      [] kind = "ValueBox" -> {"depth", "lensCandidates"}
      [] OTHER -> {}

\* No context object that exists is assigned to and none is lost
ContextsKept ==
    /\ Len(ctxs') >= Len(ctxs)
    /\ \A c \in 1..Len(ctxs) : ctxs'[c] = ctxs[c]

\* Every box has a context object of its own; the context of a box below
\* another box has, in every field but those assigned on the clone, the
\* value the context of the box above has, and in baseNode and label the
\* value the constructor assigned
ChildContexts ==
    /\ \A b1, b2 \in BoxIds :
          b1 # b2 => boxes[b1].context # boxes[b2].context
    /\ \A b \in BoxIds :
          boxes[b].parent # NoBox
          => /\ \A f \in DOMAIN ContextOf(b)
                          \ AssignedOnClone(boxes[b].kind,
                                            boxes[boxes[b].parent].kind) :
                   ContextOf(b)[f] = ContextOf(boxes[b].parent)[f]
             /\ (/\ boxes[b].kind \in {"PropertyBox", "LabelBox"}
                 /\ boxes[boxes[b].parent].kind = "ResourceBox")
                => ContextOf(b).lensCandidates = NoCandidates
             /\ boxes[b].kind \in {"ResourceBox", "LabelBox"}
                => ContextOf(b).baseNode = boxes[b].node
             /\ boxes[b].kind = "LabelBox" => ContextOf(b).label

\* C14: Context.clone returns an independent copy.  No call of append,
\* select, portray or transform changes a field of a context that existed
\* before the call, and after every call the context of each box still has
\* the field values of the context it was cloned from, the fields assigned
\* on the clone apart: building the children of a box, with the baseNode,
\* label, depth and lensCandidates assignments on their contexts, leaves
\* the context of the box as it was.
C14_CloneIndependent == [][ContextsKept /\ ChildContexts']_vars

\* C14 witness: select returned; a ValueBox is on a context whose depth and
\* lensCandidates were assigned other values than those of the context of
\* its PropertyBox, with a ResourceBox below it, and a LabelBox was made
C14_Witness ==
    /\ status.phase = "selected"
    /\ BoxesOf("LabelBox") # {}
    /\ \E v \in BoxesOf("ValueBox") :
          /\ ContextOf(v).depth # ContextOf(boxes[v].parent).depth
          /\ ContextOf(v).lensCandidates
               # ContextOf(boxes[v].parent).lensCandidates
          /\ boxes[v].content # NoBox
          /\ ContextOf(boxes[v].content).baseNode # ContextOf(v).baseNode

-----------------------------------------------------------------------------
(* Claims on the choice among tied rules, checked under SpecLens *)

\* The matching candidates no other matching candidate has a strictly
\* greater MatchQuality than
BestCandidates ==
    {rule \in MatchingCandidates :
        \A other \in MatchingCandidates :
            ~MatchQuality_lt(instanceGraph.sub, CallMatch(rule).q,
                             CallMatch(other).q)}

\* The best candidates whose quality equals that of another best one
TiedCandidates ==
    {rule \in BestCandidates :
        \E other \in BestCandidates \ {rule} :
            MatchQuality_eq(instanceGraph.sub, CallMatch(rule).q,
                            CallMatch(other).q)}

\* The rule node has the triple fresnel:purpose fresnel:defaultLens
DeclaresDefault(rule) == "defaultLens" \in NodeRec(fresnelGraph, rule).purpose

\* C15: when more than one matching rule ties for the best quality,
\* Context.lens and Context.fmt do not fail and return one of the tied
\* rules, and a rule declaring the default purpose whenever at least one
\* of the tied rules declares it.
C15_DefaultPurposeTieBreak ==
    (ret.op \in {"lens", "fmt"} /\ TiedCandidates # {})
    => /\ ~ret.out.raised
       /\ ret.out.result \in TiedCandidates
       /\ (\E rule \in TiedCandidates : DeclaresDefault(rule))
            => DeclaresDefault(ret.out.result)

-----------------------------------------------------------------------------
(* Claims on the calls of a ContainerBox, checked under SpecContainer *)

\* The ResourceBoxes of the container are those of the roots appended so
\* far, one per root and in their order
OnePerRoot ==
    /\ Len(boxes[1].resources) = Len(boxes[1].resourceNodes)
    /\ \A i \in 1..Len(boxes[1].resources) :
          /\ boxes[boxes[1].resources[i]].kind = "ResourceBox"
          /\ boxes[boxes[1].resources[i]].node = boxes[1].resourceNodes[i]

\* Each ResourceBox of the container is on a context object that is neither
\* the container's nor that of another of them
OwnContexts ==
    \A i \in 1..Len(boxes[1].resources) :
        /\ boxes[boxes[1].resources[i]].context # boxes[1].context
        /\ \A j \in 1..Len(boxes[1].resources) :
              i # j => boxes[boxes[1].resources[i]].context
                          # boxes[boxes[1].resources[j]].context

\* select was called and returned
SelectReturned == plan' # plan /\ status'.phase = "selected"
                  /\ plan'.calls[Len(plan'.calls)] = "select"

\* C16: after each select of a sequence of append and select calls the
\* container holds exactly one ResourceBox per root appended so far, also
\* when select was called before; each of them is on a context of its own,
\* and the depth of the container's context is what it was.
C16_SelectOnePerRoot ==
    [][SelectReturned
       => /\ OnePerRoot'
          /\ OwnContexts'
          /\ ContextOf(1)' = ContextOf(1)]_vars

-----------------------------------------------------------------------------
(* Claims on property descriptions, checked under Spec *)

\* A node typed fresnel:PropertyDescription with none of fresnel:property,
\* fresnel:mergeProperties and fresnel:alternateProperties
Malformed(d) ==
    /\ "PropertyDescription" \in d.types
    /\ d.property = <<>>
    /\ d.mergeProperties = NoCandidates
    /\ d.alternateProperties = NoCandidates

\* The boxes whose lens shows a malformed description: PropertyBoxList
\* read lens.showProperties for them
MalformedBoxes ==
    {b \in BoxIds :
        /\ boxes[b].lens # None
        /\ \E i \in 1..Len(NodeRec(fresnelGraph, boxes[b].lens).showProperties) :
              Malformed(NodeRec(fresnelGraph, boxes[b].lens).showProperties[i])}

\* C17: a description typed fresnel:PropertyDescription that declares none
\* of fresnel:property, fresnel:mergeProperties and
\* fresnel:alternateProperties is reported with a FresnelException when it
\* is constructed: the select of a box whose lens shows it ends with this
\* exception, and no PropertyBox is made for the description.
C17_MalformedDescriptionRaises ==
    \A b \in MalformedBoxes :
        /\ status.phase = "raised"
        /\ status.error = "FresnelException"
        /\ boxes[b].properties = <<>>

\* C18: every context made during ContainerBox.select has a depth that is
\* not negative, the depth of the root context and the declared depths
\* being not negative; no PropertyBox selected inside a LabelBox whose
\* context has depth 0 makes a value context of negative depth.
C18_DepthNotNegative ==
    \A c \in 1..Len(ctxs) : ctxs[c].depth >= 0

-----------------------------------------------------------------------------
(* Claims on label-mode, checked under Spec *)

\* C19: label-mode is monotone down the tree.  Every box in the subtree of
\* a LabelBox, the LabelBox included, is on a context whose label flag is
\* true, and no box made by select or portray is on a context with the flag
\* false when the box that made it is on a context with the flag true.
C19_LabelModeMonotone ==
    \A b \in BoxIds :
        /\ (boxes[b].kind = "LabelBox" \/ InLabel(b)) => ContextOf(b).label
        /\ (boxes[b].parent # NoBox /\ ContextOf(boxes[b].parent).label)
              => ContextOf(b).label

\* C19 witness: select returned and a LabelBox has a PropertyBox with a
\* ValueBox whose content is a ResourceBox, all of them in label-mode
C19_Witness ==
    /\ status.phase = "selected"
    /\ \E r \in BoxesOf("ResourceBox") :
          /\ InLabel(r)
          /\ ContextOf(r).label
          /\ boxes[boxes[r].parent].kind = "ValueBox"
          /\ boxes[boxes[boxes[r].parent].parent].kind = "PropertyBox"
          /\ boxes[boxes[boxes[boxes[r].parent].parent].parent].kind
               = "LabelBox"

-----------------------------------------------------------------------------
(* Claims on the order of the stages, checked under SpecContainer *)

\* The boxes transform serializes: those reached from the container
\* through resources, label, properties, values and content
RECURSIVE SerializedFrom(_, _)
SerializedFrom(ids, n) ==
    IF n = 0 THEN ids
    ELSE SerializedFrom(
            ids \cup {b \in BoxIds : boxes[b].parent \in ids
                        /\ \/ In(b, boxes[boxes[b].parent].resources)
                           \/ In(b, boxes[boxes[b].parent].properties)
                           \/ In(b, boxes[boxes[b].parent].values)
                           \/ b = boxes[boxes[b].parent].label
                           \/ b = boxes[boxes[b].parent].content},
            n - 1)

Serialized == SerializedFrom({1}, Len(boxes))

\* C20: in a rendering that runs select, then portray, then transform, the
\* portray of every box transform serializes has run before: the LabelBox
\* of each ResourceBox and the boxes below it included, ResourceBox.portray
\* portrays its label and its properties alike.
C20_PortrayedBeforeTransform ==
    (Renders /\ status.phase = "transformed")
    => \A b \in Serialized : boxes[b].portrayed

-----------------------------------------------------------------------------
(* Claims on sublenses, checked under SpecSublens *)

\* The ResourceBoxes that are the content of a ValueBox and have resolved
\* their lens: select has run on a context of depth above 0
NestedResolved ==
    {r \in BoxesOf("ResourceBox") :
        /\ boxes[boxes[r].parent].kind = "ValueBox"
        /\ boxes[r].selected
        /\ ContextOf(r).depth > 0}

\* The description of the PropertyBox the ResourceBox is a value of
DescriptionAbove(r) ==
    boxes[boxes[boxes[r].parent].parent].propertyDescription

\* The fallback of the mode the context is in
FallbackOf(ctx) ==
    IF ctx.label THEN ctx.fallbackLabelLens ELSE ctx.fallbackLens

\* C21: when the description of a PropertyBox declares sublenses, the lens
\* of every ResourceBox made for a value of the box that resolves a lens
\* (depth above 0) is one of the declared sublenses or the fallback of its
\* context, never another lens of the rule graph.
C21_SublensRestriction ==
    \A r \in NestedResolved :
        DescriptionAbove(r).sublenses # <<>>
        => \/ In(boxes[r].lens, DescriptionAbove(r).sublenses)
           \/ boxes[r].lens = FallbackOf(ContextOf(r))

\* C21 witness: select returned; the root has the lens L, whose description
\* names M as the only sublens, and the ResourceBox of a value has the lens
\* M although L matches it as well and is the default lens
C21_Witness ==
    /\ status.phase = "selected"
    /\ \E r \in NestedResolved :
          /\ DescriptionAbove(r).sublenses = <<"M">>
          /\ boxes[r].lens = "M"
          /\ matches(ContextOf(r), fresnelGraph, instanceGraph, "Lens", "L",
                     boxes[r].node, FALSE).matched

\* The boxes whose context is a clone, made without a lensCandidates
\* argument, of the context of the box above: the ResourceBox of a ValueBox
\* (line 1069), the LabelBox of a PropertyBox (lines 954 and 968) and the
\* PropertyBoxes of a LabelBox (lines 1015 and 715-730)
PlainClones ==
    {b \in BoxIds :
        /\ boxes[b].parent # NoBox
        /\ <<boxes[boxes[b].parent].kind, boxes[b].kind>>
             \in {<<"ValueBox", "ResourceBox">>, <<"PropertyBox", "LabelBox">>,
                  <<"LabelBox", "PropertyBox">>}}

RestrictedBy(b) ==
    IF boxes[b].kind = "ValueBox" THEN boxes[b].parent
    ELSE IF boxes[b].kind = "ResourceBox" /\ boxes[b].parent # NoBox
    THEN boxes[boxes[b].parent].parent
    ELSE NoBox

\* The sublenses the description of PropertyBox p declares
DeclaredSublenses(p) ==
    IF p # NoBox /\ boxes[p].propertyDescription.sublenses # <<>>
    THEN boxes[p].propertyDescription.sublenses
    ELSE NoCandidates

\* C23: a sublens restriction lasts one level.  The lensCandidates of the
\* context of a ValueBox and of its ResourceBox are the sublenses of the
\* description of the PropertyBox the value belongs to, None when it
\* declares none; the context of every PropertyBox and LabelBox has
\* lensCandidates = None, whatever the restriction of the ResourceBox above.
C23_RestrictionOneLevel ==
    \A b \in BoxIds \ {1} :
        ContextOf(b).lensCandidates = DeclaredSublenses(RestrictedBy(b))

\* C23 witness: select returned; a ResourceBox restricted to the sublens M
\* resolved M, and its LabelBox, a PropertyBox of it and a ValueBox of that
\* PropertyBox are on contexts with lensCandidates = None
C23_Witness ==
    /\ status.phase = "selected"
    /\ \E r \in BoxesOf("ResourceBox") :
          /\ ContextOf(r).lensCandidates = <<"M">>
          /\ boxes[r].lens = "M"
          /\ boxes[r].label # NoBox
          /\ ContextOf(boxes[r].label).lensCandidates = NoCandidates
          /\ \E i \in DOMAIN boxes[r].properties :
                /\ ContextOf(boxes[r].properties[i]).lensCandidates
                     = NoCandidates
                /\ \E j \in DOMAIN boxes[boxes[r].properties[i]].values :
                      ContextOf(boxes[boxes[r].properties[i]].values[j])
                          .lensCandidates = NoCandidates

-----------------------------------------------------------------------------
(* Claims on labels, checked under SpecLabel *)

\* The format of PropertyBox b supplies a literal label
LiteralLabelFormat(b) ==
    /\ boxes[b].fmt # None
    /\ NodeRec(fresnelGraph, boxes[b].fmt).label # None
    /\ IsLiteral(NodeRec(fresnelGraph, boxes[b].fmt).label)

\* C24: no label inside a label.  When select, portray or transform has
\* returned, a PropertyBox whose context is in label-mode has no LabelBox,
\* a PropertyBox outside label-mode has one only if its description gives a
\* label, it has a reference predicate or its format supplies a literal
\* label, and no LabelBox is below a LabelBox.
C24_NoLabelInLabel ==
    status.phase \in {"selected", "portrayed", "transformed"}
    => /\ \A b \in BoxesOf("PropertyBox") :
             /\ ContextOf(b).label => boxes[b].label = NoBox
             /\ (~ContextOf(b).label /\ boxes[b].label # NoBox)
                => \/ boxes[b].propertyDescription.label # None
                   \/ boxes[b].referenceProperty # None
                   \/ LiteralLabelFormat(b)
       /\ \A l \in BoxesOf("LabelBox") : ~InLabel(l)

-----------------------------------------------------------------------------
(* Claims on the content of format hooks, checked under SpecContainer *)

\* The elements of a tree of elements, at every depth
RECURSIVE ElementsOf(_)
ElementsOf(xml) ==
    UNION {{xml[i]} \cup ElementsOf(xml[i].children) : i \in DOMAIN xml}

\* The content E builds for the hook slots of box b that come after its
\* children, and for those that come before them
ContentAfter(b) == ContentElements(boxes[b], <<"contentAfter", "contentLast">>)
ContentBefore(b) ==
    ContentElements(boxes[b], <<"contentFirst", "contentBefore",
                                "contentNoValue">>)

\* The serialized boxes that were portrayed with a hook that sets
\* contentAfter or contentLast
AfterContentBoxes ==
    {b \in Serialized : boxes[b].portrayed /\ ContentAfter(b) # <<>>}

\* The tag of the element a box is serialized as
TagOf(b) ==
    CASE boxes[b].kind = "ContainerBox" -> "fresnelresult"
      [] boxes[b].kind = "ResourceBox" -> "resource"
      [] boxes[b].kind = "PropertyBox" -> "property"
      [] boxes[b].kind = "LabelBox" -> "label"
      [] OTHER -> "value"

\* The result has an element for box b that begins with the content that
\* goes before the children of b and ends with the content that goes after
Emitted(b) ==
    \E e \in ElementsOf(result.xml) :
        /\ e.tag = TagOf(b)
        /\ Len(e.children) >= Len(ContentBefore(b)) + Len(ContentAfter(b))
        /\ SubSeq(e.children, 1, Len(ContentBefore(b))) = ContentBefore(b)
        /\ SubSeq(e.children, Len(e.children) - Len(ContentAfter(b)) + 1,
                  Len(e.children)) = ContentAfter(b)

\* C25: transform serializes after-content.  A call of transform on boxes
\* of which one was portrayed with a hook that sets contentAfter or
\* contentLast returns without an exception and leaves every box as it was,
\* and the element of each such box has contentFirst, contentBefore and
\* contentNoValue before its children and contentAfter and contentLast
\* after them.
C25_TransformSerializesAfterContent ==
    [][(/\ status.phase = "portrayed"
        /\ status'.phase # "portrayed"
        /\ AfterContentBoxes # {})
       => /\ status'.phase = "transformed"
          /\ result'.raised = None
          /\ boxes' = boxes
          /\ \A b \in AfterContentBoxes : Emitted(b)']_vars

====
